---- MODULE Spec2Model ----
(***************************************************************************)
(* Session lifecycle of the VLC integration driver (driver.py), with the   *)
(* per-entity monitoring of media_player.py, the device registry of        *)
(* config.py and the connectivity probe of client.py.                      *)
(*                                                                         *)
(* The driver is one asyncio process: a handler runs atomically from one   *)
(* await that really suspends to the next, so one action is the code       *)
(* between two suspension points.  Handlers in flight are the elements of  *)
(* Procs; the periodic tasks hang off the adapter objects.                 *)
(***************************************************************************)
EXTENDS Integers, Sequences, FiniteSets, TLC

\* Device identifiers (md5(host:port)[:8], here numbered); the entity id of
\* device d is vlc_<d>_media_player, so entity ids are named by their device.
Devices == {1, 2}

\* Bounds of the model.
NProcs == 2
MaxAdapters == 3
MaxMonitors == 2

MaxTasks == 2

Procs == 1..NProcs
AdapterIds == 1..MaxAdapters
MonitorIds == 1..MaxMonitors

VARIABLES
    devices,         \* Config._devices: the keys, in insertion order
    disk,            \* the devices stored in config.json
    entities_ready,  \* driver.entities_ready
    lock,            \* initialization_lock: 0 free, else the holder
    waiters,         \* initialization_lock._waiters (FIFO)
    deviceState,     \* api.device_state
    clients,         \* driver.clients: device -> VLCClient
    media_players,   \* driver.media_players: device -> adapter object
    available,       \* api.available_entities
    adapters,        \* the VLCMediaPlayer objects alive in the process
    monitors,        \* number of _monitor_connection tasks created
    h,               \* handlers in flight: locals and position of each
    event,           \* what the last step emitted (attribute push, task stop)
    mon,             \* the _monitor_connection tasks: locals and position
    vclient,         \* one VLCClient object, looked at on its own
    vlc,             \* the VLC instance that client talks to
    player,          \* one VLCMediaPlayer object, looked at on its own
    reply            \* what the last call on vclient / player returned

\* The objects looked at on their own, outside the session.
unitVars == <<vclient, vlc, player, reply>>

vars == <<devices, disk, entities_ready, lock, waiters, deviceState,
          clients, media_players, available, adapters, monitors, h,
          event, mon, unitVars>>

NoEvent == [type |-> "none", by |-> "none", devs |-> {}, state |-> "none"]
NoAdapter == [dev |-> 0]

Idle == [kind |-> "idle", pc |-> "idle", devs |-> <<>>, todo |-> <<>>,
         okProbes |-> {}, arg |-> 0, ids |-> {}, ref |-> 0,
         downSeen |-> FALSE]

Min(a, b) == IF a < b THEN a ELSE b

\* VLCMediaPlayer.__init__ followed by connect(), for device d and client c.
\* Field unsub is history: the hub has unsubscribed the entity id while this
\* object's periodic task went on running, and has not subscribed it since.
NewAdapter(d, c) == [dev |-> d, connected |-> TRUE, monitoring |-> FALSE,
                     task |-> "none", client |-> c, unsub |-> FALSE]

\* The environment decides for every request whether the device answers it
\* (HTTP 200 with a parsable status document) or not (refused, timed out,
\* another HTTP status, malformed body): parameter `answers` of the steps
\* that receive a response.

\* VLCClient has no attribute _stored_volume until mute() sets it.
NoStored == -1

\* VLCClient.__init__: not marked connected.
NewClient == [is_connected |-> FALSE, stored |-> NoStored]

\* VLCClient.connect(): true, and the client marked connected, iff the device
\* answers; a failed probe leaves the flag as it is.
ClientConnect(c, answers) ==
    [ok |-> answers,
     client |-> IF answers THEN [c EXCEPT !.is_connected = TRUE] ELSE c]

\* VLCClient.disconnect()
ClientDisconnect(c) == [c EXCEPT !.is_connected = FALSE]

\* VLCClient.get_status(): absent when not marked connected or on any
\* transport failure.
GetStatus(c, answers) ==
    IF ~c.is_connected THEN "absent"
    ELSE IF answers THEN "status" ELSE "absent"

Range(seq) == {seq[i] : i \in DOMAIN seq}

\* The registries a program start can find on disk.
Registries ==
    {<<>>} \cup {<<d>> : d \in Devices}
           \cup {<<d, e>> : <<d, e>> \in {x \in Devices \X Devices : x[1] # x[2]}}

\* Config.is_configured()
IsConfigured(dv) == Len(dv) > 0

\* Config.add_device(): a dict assignment (a new key goes last, an existing
\* key keeps its place) followed by save().
AddDevice(dv, d) == IF d \in Range(dv) THEN dv ELSE Append(dv, d)

\* A _monitor_connection task that has not run yet: at the head of its
\* loop.  used and pos are the state of the iterator over clients.items(),
\* cur is the device of the client the loop variable holds.
NewMonitor == [pc |-> "top", used |-> 0, pos |-> 0, cur |-> 0,
               all_connected |-> TRUE]

\* No status document.
NoDoc ==
    [state |-> "", volume |-> 0,
     media |-> [meta |-> FALSE, title |-> "", artist |-> "", album |-> "",
                time |-> 0, length |-> 0],
     loop |-> FALSE, repeat |-> FALSE, random |-> FALSE]

\* VLCMediaPlayer.__init__: the cached attributes and the flags _connected
\* and _monitoring; pending says that a command_handler call is in its sleep
\* of 0.5 s or in the refresh after it, ntasks counts the _periodic_update
\* tasks of the object that exist and are not cancelled, polls holds the
\* callers of update_status() whose status request is in flight.  Field src
\* is history: the status document of the last poll that parsed one.
NewPlayer ==
    [connected |-> TRUE, state |-> "OFF", volume |-> 0, muted |-> FALSE,
     position |-> 0, duration |-> 0, title |-> "", artist |-> "",
     album |-> "", image |-> "", repeat |-> "OFF", shuffle |-> FALSE,
     pending |-> FALSE, monitoring |-> FALSE, ntasks |-> 0,
     polls |-> {}, src |-> NoDoc]

\* No call made yet: its name and volume argument, what it returned, the
\* requests it sent to the device, the status document its poll was
\* answered with, whether it pushed the attributes.
NoReply == [op |-> "none", arg |-> 0, ret |-> "none", sent |-> <<>>,
            seen |-> NoDoc, pushed |-> FALSE]

\* The objects looked at on their own are not part of the session.
UnitIdle ==
    /\ vclient = NewClient
    /\ vlc = [volume |-> 256]
    /\ player = NewPlayer
    /\ reply = NoReply

\* main(): config loaded, pre-initialization task scheduled when configured,
\* hub told Disconnected otherwise.
Init ==
    /\ devices \in Registries
    /\ disk = devices
    /\ entities_ready = FALSE
    /\ lock = 0
    /\ waiters = <<>>
    /\ deviceState = "DISCONNECTED"
    /\ clients = <<>>
    /\ media_players = <<>>
    /\ available = {}
    /\ adapters = [a \in AdapterIds |-> NoAdapter]
    /\ monitors = 0
    /\ h = [p \in Procs |->
              IF p = 1 /\ IsConfigured(devices)
              THEN [Idle EXCEPT !.kind = "preinit", !.pc = "start"]
              ELSE Idle]
    /\ event = NoEvent
    /\ mon = [m \in MonitorIds |-> NewMonitor]
    /\ UnitIdle

\* The pre-initialization task runs before the hub can deliver any event.
Booted == \A p \in Procs : h[p].pc # "start"


\* Fault: the lock is not released at the end of the `async with` block.
LockAfterRelease_Held == lock

\* asyncio.Lock.release(): the lock passes to the first waiter, if any.
LockAfterRelease == IF waiters = <<>> THEN 0 ELSE Head(waiters)
WaitersAfterRelease == IF waiters = <<>> THEN <<>> ELSE Tail(waiters)

\* The adapter objects no handler, task or registry entry refers to any more
\* are garbage.
Live(ad, mp, hh) ==
    {a \in AdapterIds :
        /\ ad[a] # NoAdapter
        /\ \/ \E d \in DOMAIN mp : mp[d] = a
           \/ ad[a].task # "none"
           \/ \E p \in Procs : hh[p].ref = a}
FreeIds(ad) == {a \in AdapterIds : ad[a] = NoAdapter}
FreshId(ad) == CHOOSE a \in FreeIds(ad) : \A b \in FreeIds(ad) : a <= b

\* on_subscribe_entities, the for loop up to its next suspension: the ids in
\* front of the first id that matches a bound adapter are skipped, the
\* matching adapter is taken for push_update(); with no match the loop ends.
\* The result is the set of handler records the loop can continue with, one
\* for every order the ids can have in the list.
SubAdvance(hp, mp) ==
    LET matched == hp.ids \cap DOMAIN mp
    IN  IF matched = {}
        THEN {Idle}
        ELSE {[hp EXCEPT !.pc = "sub_push", !.ref = mp[d],
                         !.ids = hp.ids \ ({d} \cup skipped)] :
                 d \in matched, skipped \in SUBSET (hp.ids \ DOMAIN mp)}

\* What the caller of _initialize_entities() does when the call returns, up to
\* its next suspension.
\*   on_connect: create_task(_monitor_connection()), handler ends
\*   setup_handler: return SetupComplete()
\*   on_subscribe_entities: enter the for loop
\*   the pre-initialization task of main(): ends
AfterInit(p, hp) ==
    LET r == [hp EXCEPT !.devs = <<>>, !.todo = <<>>, !.okProbes = {}]
    IN  CASE hp.kind = "connect" ->
               /\ monitors' = Min(monitors + 1, MaxMonitors)
               /\ h' = [h EXCEPT ![p] = Idle]
          [] hp.kind = "setup" ->
               /\ monitors' = monitors
               /\ h' = [h EXCEPT ![p] = Idle]
          [] hp.kind = "subscribe" ->
               /\ monitors' = monitors
               /\ \E nxt \in SubAdvance(r, media_players) :
                     h' = [h EXCEPT ![p] = nxt]
          [] OTHER ->
               /\ monitors' = monitors
               /\ h' = [h EXCEPT ![p] = Idle]

\* Fault: the readiness check is missing.
InitChecked_NoReadyCheck(p, hp, er, dv) ==
    /\ entities_ready' = er
    /\ lock' = p
    /\ waiters' = waiters
    /\ monitors' = monitors
    /\ IF ~IsConfigured(dv)
       THEN /\ deviceState' = "DISCONNECTED"
            /\ h' = [h EXCEPT ![p] = [hp EXCEPT !.pc = "i_exit"]]
       ELSE /\ deviceState' = "CONNECTING"
            /\ h' = [h EXCEPT ![p] = [hp EXCEPT !.pc = "i_clear",
                         !.devs = dv, !.todo = dv, !.okProbes = {}]]

\* Fault: an empty registry is reported as Error.
InitChecked_EmptyIsError(p, hp, er, dv) ==
    /\ entities_ready' = er
    /\ IF er
       THEN /\ lock' = LockAfterRelease
            /\ waiters' = WaitersAfterRelease
            /\ deviceState' = deviceState
            /\ AfterInit(p, hp)
       ELSE /\ lock' = p
            /\ waiters' = waiters
            /\ monitors' = monitors
            /\ IF ~IsConfigured(dv)
               THEN /\ deviceState' = "ERROR"
                    /\ h' = [h EXCEPT ![p] = [hp EXCEPT !.pc = "i_exit"]]
               ELSE /\ deviceState' = "CONNECTING"
                    /\ h' = [h EXCEPT ![p] = [hp EXCEPT !.pc = "i_clear",
                                 !.devs = dv, !.todo = dv, !.okProbes = {}]]

\* _initialize_entities() from the moment the lock is held up to the first
\* suspension: the readiness check, the registry snapshot, the report of
\* Disconnected or Connecting.  er is entities_ready and dv the registry as
\* the caller left them.
InitChecked(p, hp, er, dv) ==
    /\ entities_ready' = er
    /\ IF er
       THEN /\ lock' = LockAfterRelease
            /\ waiters' = WaitersAfterRelease
            /\ deviceState' = deviceState
            /\ AfterInit(p, hp)
       ELSE /\ lock' = p
            /\ waiters' = waiters
            /\ monitors' = monitors
            /\ IF ~IsConfigured(dv)
               THEN /\ deviceState' = "DISCONNECTED"
                    /\ h' = [h EXCEPT ![p] = [hp EXCEPT !.pc = "i_exit"]]
               ELSE /\ deviceState' = "CONNECTING"
                    /\ h' = [h EXCEPT ![p] = [hp EXCEPT !.pc = "i_clear",
                                 !.devs = dv, !.todo = dv, !.okProbes = {}]]

\* Fault: the call does not wait for the lock.
InitEnter_NoLock(p, hp, er, dv) == InitChecked(p, hp, er, dv)

\* The call of _initialize_entities(): `async with initialization_lock`
\* suspends the caller when the lock is held, else it goes on at once.
InitEnter(p, hp, er, dv) ==
    IF lock # 0
    THEN /\ waiters' = Append(waiters, p)
         /\ h' = [h EXCEPT ![p] = [hp EXCEPT !.pc = "i_wait"]]
         /\ entities_ready' = er
         /\ UNCHANGED <<lock, deviceState, monitors>>
    ELSE InitChecked(p, hp, er, dv)

\* What a step of handler p emits: SetupComplete() when p is a setup_handler
\* that returns in this step, else nothing.
ReturnEvent(p) ==
    IF h[p].kind = "setup" /\ h'[p].kind = "idle"
    THEN [type |-> "setup", by |-> "setup", devs |-> {h[p].arg},
          state |-> "complete"]
    ELSE NoEvent

\* main(): the scheduled pre-initialization task starts.
PreInit(p) ==
    /\ h[p].pc = "start"
    /\ InitEnter(p, h[p], entities_ready, devices)
    /\ event' = NoEvent
    /\ UNCHANGED <<devices, disk, clients, media_players, available,
                   adapters>>
    /\ UNCHANGED <<mon, unitVars>>

\* A waiter of the lock is woken holding it.
InitResume(p) ==
    /\ h[p].pc = "i_wait"
    /\ lock = p
    /\ InitChecked(p, h[p], entities_ready, devices)
    /\ event' = ReturnEvent(p)
    /\ UNCHANGED <<devices, disk, clients, media_players, available,
                   adapters>>
    /\ UNCHANGED <<mon, unitVars>>

\* Object addresses are not observable: when the registries are cleared the
\* surviving (orphaned) adapter objects are renumbered into the first slots,
\* ordered by their fields and the first handler referring to them.
FirstRef(hh, a) ==
    LET R == {p \in Procs : hh[p].ref = a}
    IN  IF R = {} THEN 0 ELSE CHOOSE p \in R : \A q \in R : p <= q
Code(ad, hh, a) ==
(((ad[a].dev * 2 + (IF ad[a].monitoring THEN 1 ELSE 0)) * 2
        + (IF ad[a].task = "run" THEN 1 ELSE 0)) * 2
        + (IF ad[a].unsub THEN 1 ELSE 0)) * (NProcs + 1)
    + FirstRef(hh, a)
Compact(ad, hh) ==
    LET live == Live(ad, <<>>, hh)
        n == Cardinality(live)
        f == CHOOSE g \in [1..n -> live] :
                /\ \A i, j \in 1..n : i # j => g[i] # g[j]
                /\ \A i, j \in 1..n :
                      i < j => Code(ad, hh, g[i]) <= Code(ad, hh, g[j])
    IN  [ad |-> [i \in AdapterIds |-> IF i <= n THEN ad[f[i]] ELSE NoAdapter],
         h |-> [p \in Procs |->
                  IF hh[p].ref = 0 THEN hh[p]
                  ELSE [hh[p] EXCEPT !.ref =
                          CHOOSE i \in 1..n : f[i] = hh[p].ref]]]

\* _initialize_entities(): after Connecting is reported the three registries
\* are cleared and the first probe is sent.
InitClear(p) ==
    /\ h[p].pc = "i_clear"
    /\ LET c == Compact(adapters, [h EXCEPT ![p].pc = "i_probe"])
       IN  /\ Cardinality(FreeIds(c.ad)) >= Len(h[p].todo)
           /\ clients' = <<>>
           /\ media_players' = <<>>
           /\ available' = {}
           /\ adapters' = c.ad
           /\ h' = c.h
    /\ event' = NoEvent
    /\ UNCHANGED <<devices, disk, entities_ready, lock, waiters,
                   deviceState, monitors>>
    /\ UNCHANGED <<mon, unitVars>>

\* Fault: the pass reports Connected without setting entities_ready.
InitFinish_NoFlag(mp) ==
    /\ entities_ready' = entities_ready
    /\ deviceState' = IF mp # <<>> THEN "CONNECTED" ELSE "ERROR"

\* Fault: the pass sets entities_ready whatever it has registered.
InitFinish_AlwaysReady(mp) ==
    /\ entities_ready' = TRUE
    /\ deviceState' = IF mp # <<>> THEN "CONNECTED" ELSE "ERROR"

\* _initialize_entities(): the end of the pass, after the loop.
InitFinish(mp) ==
    IF mp # <<>>
    THEN /\ entities_ready' = TRUE
         /\ deviceState' = "CONNECTED"
    ELSE /\ entities_ready' = entities_ready
         /\ deviceState' = "ERROR"

\* Fault: a failed probe ends the pass instead of skipping the device.
InitProbe_AbortOnFailure(p, answers) ==
    /\ h[p].pc = "i_probe"
    /\ LET d == Head(h[p].todo)
           probe == ClientConnect(NewClient, answers)
           ok == probe.ok
           a == FreshId(adapters)
           mp == IF ok THEN (d :> a) @@ media_players ELSE media_players
           last == Len(h[p].todo) = 1 \/ ~ok
       IN  /\ clients' = IF ok THEN (d :> probe.client) @@ clients ELSE clients
           /\ media_players' = mp
           /\ available' = IF ok THEN available \cup {d} ELSE available
           /\ adapters' = IF ok
                          THEN [adapters EXCEPT ![a] = NewAdapter(d, probe.client)]
                          ELSE adapters
           /\ h' = [h EXCEPT ![p].todo = IF last THEN <<>> ELSE Tail(@),
                             ![p].okProbes = IF ok THEN @ \cup {d} ELSE @,
                             ![p].pc = IF last THEN "i_exit" ELSE "i_probe"]
           /\ IF last THEN InitFinish(mp)
              ELSE UNCHANGED <<entities_ready, deviceState>>
    /\ event' = NoEvent
    /\ UNCHANGED <<devices, disk, lock, waiters, monitors>>
    /\ UNCHANGED <<mon, unitVars>>

\* _initialize_entities(): the probe of device d returns.  On success the
\* client is registered and its adapter built, bound and made available; on
\* failure the device is skipped.  After the last device the pass ends.
InitProbe(p, answers) ==
    /\ h[p].pc = "i_probe"
    /\ LET d == Head(h[p].todo)
           probe == ClientConnect(NewClient, answers)
           ok == probe.ok
           a == FreshId(adapters)
           mp == IF ok THEN (d :> a) @@ media_players ELSE media_players
           last == Len(h[p].todo) = 1
       IN  /\ clients' = IF ok THEN (d :> probe.client) @@ clients ELSE clients
           /\ media_players' = mp
           /\ available' = IF ok THEN available \cup {d} ELSE available
           /\ adapters' = IF ok
                          THEN [adapters EXCEPT ![a] = NewAdapter(d, probe.client)]
                          ELSE adapters
           /\ h' = [q \in Procs |->
                      IF q = p
                      THEN [h[p] EXCEPT
                              !.todo = Tail(@),
                              !.okProbes = IF ok THEN @ \cup {d} ELSE @,
                              !.downSeen = @ \/ (h[p].kind = "setup"
                                                  /\ h[p].arg = d /\ ~ok),
                              !.pc = IF last THEN "i_exit" ELSE "i_probe"]
                      ELSE IF h[q].kind = "setup" /\ h[q].arg = d /\ ~ok
                           THEN [h[q] EXCEPT !.downSeen = TRUE]
                           ELSE h[q]]
           /\ IF last THEN InitFinish(mp)
              ELSE UNCHANGED <<entities_ready, deviceState>>
    /\ event' = NoEvent
    /\ UNCHANGED <<devices, disk, lock, waiters, monitors>>
    /\ UNCHANGED <<mon, unitVars>>

\* _initialize_entities(): the final report returns, the lock is released
\* and the caller goes on.
InitExit(p) ==
    /\ h[p].pc = "i_exit"
    /\ lock' = LockAfterRelease
    /\ waiters' = WaitersAfterRelease
    /\ AfterInit(p, h[p])
    /\ event' = ReturnEvent(p)
    /\ UNCHANGED <<devices, disk, entities_ready, deviceState, clients,
                   media_players, available, adapters>>
    /\ UNCHANGED <<mon, unitVars>>

\* setup_handler: the SetupAction returned for the request about device d.
SetupResult(d, res) ==
    [type |-> "setup", by |-> "setup", devs |-> {d}, state |-> res]

\* VLCMediaPlayer.start_monitoring(): sets the flag and creates the periodic
\* task, unless the flag is already set.
StartMonitoring(rec) ==
    IF ~rec.monitoring
    THEN [rec EXCEPT !.monitoring = TRUE, !.task = "run", !.unsub = FALSE]
    ELSE rec

\* Fault: the adapter is disconnected (VLCMediaPlayer.disconnect()) where
\* only its monitoring should stop.
StopMonitoring_Disconnect(rec) ==
    [rec EXCEPT !.monitoring = FALSE, !.task = "none", !.connected = FALSE]

\* VLCMediaPlayer.stop_monitoring(): clears the flag and cancels the task,
\* which then runs no further statement of its loop.
StopMonitoring(rec) ==
    IF rec.monitoring
    THEN [rec EXCEPT !.monitoring = FALSE, !.task = "none"]
    ELSE rec

\* VLCMediaPlayer.update_attributes(): update_status() and then the push of
\* the full attribute set for the adapter's entity id.  A poll without a
\* status makes the state unavailable.
PushOf(rec, by, answers) ==
    [type |-> "push", by |-> by, devs |-> {rec.dev},
     state |-> IF ~rec.connected THEN "stale"
               ELSE IF GetStatus(rec.client, answers) = "absent"
                    THEN "unavailable" ELSE "ok"]

\* Fault: on_connect reports Connected whatever the readiness and never
\* initializes.
Connect_NoInit(p) ==
    /\ Booted
    /\ h[p].kind = "idle"
    /\ devices' = disk
    /\ IF IsConfigured(disk)
       THEN /\ deviceState' = "CONNECTED"
            /\ h' = [h EXCEPT ![p] = [Idle EXCEPT !.kind = "connect",
                                                  !.pc = "c_state"]]
       ELSE /\ deviceState' = "DISCONNECTED"
            /\ h' = [h EXCEPT ![p] = Idle]
    /\ event' = NoEvent
    /\ UNCHANGED <<entities_ready, lock, waiters, monitors>>
    /\ UNCHANGED <<disk, clients, media_players, available, adapters>>
    /\ UNCHANGED <<mon, unitVars>>

\* on_connect up to its first suspension: the registry is reloaded; when
\* configured either _initialize_entities() is called or Connected is
\* reported, else Disconnected is reported and the handler ends.
Connect(p) ==
    /\ Booted
    /\ h[p].kind = "idle"
    /\ devices' = disk
    /\ LET hp == [Idle EXCEPT !.kind = "connect"]
       IN  IF IsConfigured(disk)
           THEN IF ~entities_ready \/ available = {}
                THEN InitEnter(p, hp, entities_ready, disk)
                ELSE /\ deviceState' = "CONNECTED"
                     /\ h' = [h EXCEPT ![p] = [hp EXCEPT !.pc = "c_state"]]
                     /\ UNCHANGED <<entities_ready, lock, waiters, monitors>>
           ELSE /\ deviceState' = "DISCONNECTED"
                /\ h' = [h EXCEPT ![p] = Idle]
                /\ UNCHANGED <<entities_ready, lock, waiters, monitors>>
    /\ event' = NoEvent
    /\ UNCHANGED <<disk, clients, media_players, available, adapters>>
    /\ UNCHANGED <<mon, unitVars>>

\* on_connect, after Connected was reported: the connectivity monitor task
\* is created.
ConnectState(p) ==
    /\ h[p].pc = "c_state"
    /\ monitors' = Min(monitors + 1, MaxMonitors)
    /\ h' = [h EXCEPT ![p] = Idle]
    /\ event' = NoEvent
    /\ UNCHANGED <<devices, disk, entities_ready, lock, waiters,
                   deviceState, clients, media_players, available, adapters>>
    /\ UNCHANGED <<mon, unitVars>>

\* Fault: no recovery; a subscription before readiness goes straight into
\* the for loop.
Subscribe_NoRecovery(p, ids) ==
    /\ Booted
    /\ h[p].kind = "idle"
    /\ adapters' = [a \in AdapterIds |->
                      IF adapters[a].dev \in ids
                      THEN [adapters[a] EXCEPT !.unsub = FALSE]
                      ELSE adapters[a]]
    /\ \E nxt \in SubAdvance([Idle EXCEPT !.kind = "subscribe", !.ids = ids],
                              media_players) :
          h' = [h EXCEPT ![p] = nxt]
    /\ event' = NoEvent
    /\ UNCHANGED <<devices, disk, entities_ready, lock, waiters, deviceState,
                   monitors, clients, media_players, available>>
    /\ UNCHANGED <<mon, unitVars>>

\* on_subscribe_entities up to its first suspension: when not ready, one
\* recovery call of _initialize_entities() if configured, else return; when
\* ready, straight into the for loop.
Subscribe(p, ids) ==
    /\ Booted
    /\ h[p].kind = "idle"
    /\ adapters' = [a \in AdapterIds |->
                      IF adapters[a].dev \in ids
                      THEN [adapters[a] EXCEPT !.unsub = FALSE]
                      ELSE adapters[a]]
    /\ LET hp == [Idle EXCEPT !.kind = "subscribe", !.ids = ids]
       IN  IF ~entities_ready
           THEN IF IsConfigured(devices)
                THEN InitEnter(p, hp, entities_ready, devices)
                ELSE /\ h' = [h EXCEPT ![p] = Idle]
                     /\ UNCHANGED <<entities_ready, lock, waiters,
                                    deviceState, monitors>>
           ELSE /\ \E nxt \in SubAdvance(hp, media_players) :
                      h' = [h EXCEPT ![p] = nxt]
                /\ UNCHANGED <<entities_ready, lock, waiters, deviceState,
                               monitors>>
    /\ event' = NoEvent
    /\ UNCHANGED <<devices, disk, clients, media_players, available>>
    /\ UNCHANGED <<mon, unitVars>>

\* Fault: monitoring is started without the initial push.
SubPush_NoPush(p, answers) ==
    /\ h[p].pc = "sub_push"
    /\ LET a == h[p].ref
       IN  /\ event' = NoEvent
           /\ adapters' = [adapters EXCEPT ![a] = StartMonitoring(@)]
           /\ \E nxt \in SubAdvance(h[p], media_players) :
                 h' = [h EXCEPT ![p] = nxt]
    /\ UNCHANGED <<devices, disk, entities_ready, lock, waiters,
                   deviceState, clients, media_players, available, monitors>>
    /\ UNCHANGED <<mon, unitVars>>

\* on_subscribe_entities: the status request of push_update() returns; the
\* state is pushed, start_monitoring() runs, and the for loop goes on to the
\* next matching id.
SubPush(p, answers) ==
    /\ h[p].pc = "sub_push"
    /\ LET a == h[p].ref
       IN  /\ event' = PushOf(adapters[a], "subscribe", answers)
           /\ adapters' = [adapters EXCEPT ![a] = StartMonitoring(@)]
           /\ \E nxt \in SubAdvance(h[p], media_players) :
                 h' = [h EXCEPT ![p] = nxt]
    /\ UNCHANGED <<devices, disk, entities_ready, lock, waiters,
                   deviceState, clients, media_players, available, monitors>>
    /\ UNCHANGED <<mon, unitVars>>

\* on_unsubscribe_entities: stop_monitoring() on every bound adapter whose
\* entity id is in the list.  The handler never suspends.
Unsubscribe(ids) ==
    /\ Booted
    /\ adapters' = [a \in AdapterIds |->
                      LET rec == IF \E d \in ids \cap DOMAIN media_players :
                                       media_players[d] = a
                                 THEN StopMonitoring(adapters[a])
                                 ELSE adapters[a]
                      IN  IF rec.dev \in ids /\ rec.task = "run"
                          THEN [rec EXCEPT !.unsub = TRUE] ELSE rec]
    /\ LET stopped == {d \in ids \cap DOMAIN media_players :
                           adapters[media_players[d]].monitoring}
       IN  event' = IF stopped = {} THEN NoEvent
                    ELSE [type |-> "stop", by |-> "unsubscribe",
                          state |-> "none", devs |-> stopped]
    /\ UNCHANGED <<devices, disk, entities_ready, lock, waiters,
                   deviceState, clients, media_players, available, monitors,
                   h>>
    /\ UNCHANGED <<mon, unitVars>>

\* setup_handler up to its first suspension: a request with a missing
\* field (or a message that is no setup request) is answered OTHER, else the
\* test client's probe is sent.
Setup(p, d, valid) ==
    /\ Booted
    /\ h[p].kind = "idle"
    /\ IF valid
       THEN /\ h' = [h EXCEPT ![p] = [Idle EXCEPT !.kind = "setup",
                         !.pc = "s_probe", !.arg = d]]
            /\ event' = NoEvent
       ELSE /\ h' = h
            /\ event' = SetupResult(d, "other")
    /\ UNCHANGED <<devices, disk, entities_ready, lock, waiters,
                   deviceState, clients, media_players, available, adapters,
                   monitors>>
    /\ UNCHANGED <<mon, unitVars>>

\* Fault: the record is written before the result of the probe is looked at.
SetupProbe_WriteFirst(p, answers) ==
    /\ h[p].pc = "s_probe"
    /\ LET d == h[p].arg
       IN  /\ devices' = AddDevice(devices, d)
           /\ disk' = AddDevice(devices, d)
           /\ IF ClientConnect(NewClient, answers).ok
              THEN InitEnter(p, h[p], FALSE, AddDevice(devices, d))
              ELSE /\ h' = [h EXCEPT ![p] = Idle]
                   /\ UNCHANGED <<entities_ready, lock, waiters,
                                  deviceState, monitors>>
    /\ event' = IF h'[p].kind = "idle"
                THEN SetupResult(h[p].arg,
                        IF ClientConnect(NewClient, answers).ok
                        THEN "complete" ELSE "refused")
                ELSE NoEvent
    /\ UNCHANGED <<clients, media_players, available, adapters>>
    /\ UNCHANGED <<mon, unitVars>>

\* setup_handler: the probe returns.  On failure CONNECTION_REFUSED; on
\* success the record is written, entities_ready is reset and
\* _initialize_entities() is called.  The suspension in
\* test_client.disconnect() between the write and the reset is not a step
\* of its own.
SetupProbe(p, answers) ==
    /\ h[p].pc = "s_probe"
    /\ LET d == h[p].arg
       IN  IF ClientConnect(NewClient, answers).ok
           THEN /\ devices' = AddDevice(devices, d)
                /\ disk' = AddDevice(devices, d)
                /\ InitEnter(p, h[p], FALSE, AddDevice(devices, d))
           ELSE /\ h' = [h EXCEPT ![p] = Idle]
                /\ UNCHANGED <<devices, disk, entities_ready, lock, waiters,
                               deviceState, monitors>>
    /\ event' = IF h'[p].kind = "idle"
                THEN SetupResult(h[p].arg,
                        IF ClientConnect(NewClient, answers).ok
                        THEN "complete" ELSE "refused")
                ELSE NoEvent
    /\ UNCHANGED <<clients, media_players, available, adapters>>
    /\ UNCHANGED <<mon, unitVars>>

\* _periodic_update, one turn of the loop: the sleep of 3 s ends, the flag is
\* tested, update_attributes() polls the device and pushes, and the loop
\* condition is tested.  The turn is one step although it suspends in the
\* sleep and in the status request: stop_monitoring() clears the flag only
\* together with cancelling the task, and nothing else the turn reads is
\* written by another step.
PeriodicUpdate(a, answers) ==
    /\ adapters[a] # NoAdapter
    /\ adapters[a].task = "run"
    /\ IF adapters[a].monitoring
       THEN event' = PushOf(adapters[a], "periodic", answers)
       ELSE event' = NoEvent
    /\ adapters' = [adapters EXCEPT ![a].task =
                      IF adapters[a].connected /\ adapters[a].monitoring
                      THEN "run" ELSE "none"]
    /\ UNCHANGED <<devices, disk, entities_ready, lock, waiters,
                   deviceState, clients, media_players, available, monitors,
                   h>>
    /\ UNCHANGED <<mon, unitVars>>

Next ==
    \/ \E p \in Procs : PreInit(p)
    \/ \E p \in Procs : Connect(p)
    \/ \E p \in Procs : ConnectState(p)
    \/ \E p \in Procs, ids \in SUBSET Devices : Subscribe(p, ids)
    \/ \E p \in Procs, answers \in BOOLEAN : SubPush(p, answers)
    \/ \E ids \in SUBSET Devices : Unsubscribe(ids)
    \/ \E p \in Procs, d \in Devices, valid \in BOOLEAN : Setup(p, d, valid)
    \/ \E p \in Procs, answers \in BOOLEAN : SetupProbe(p, answers)
    \/ \E p \in Procs : InitResume(p)
    \/ \E p \in Procs : InitClear(p)
    \/ \E p \in Procs, answers \in BOOLEAN : InitProbe(p, answers)
    \/ \E p \in Procs : InitExit(p)
    \/ \E a \in AdapterIds, answers \in BOOLEAN : PeriodicUpdate(a, answers)

Spec == Init /\ [][Next]_vars

(***************************************************************************)
(* Properties                                                              *)
(***************************************************************************)

\* Handler p is inside the guarded section of _initialize_entities().
InPass(p) == h[p].pc \in {"i_clear", "i_probe", "i_exit"}
\* Handler p is woken holding the lock and has not yet run its check.
Woken(p) == h[p].pc = "i_wait" /\ lock = p
NoSetupInFlight == \A r \in Procs : h[r].kind # "setup"

\* C1: at most one initialize() pass is inside the guarded section at a
\* time, and it is the holder of the lock: while a pass clears or rebuilds
\* the registries - also after a failed probe - every other caller waits.
C1_OnePassAtATime ==
    /\ \A p, q \in Procs : InPass(p) /\ InPass(q) => p = q
    /\ \A p \in Procs : InPass(p) => lock = p
    /\ \A p \in Procs : h[p].pc = "i_wait" =>
          /\ lock # 0
          /\ lock = p \/ \E i \in DOMAIN waiters : waiters[i] = p

\* C1 witness: a pass goes on after a failed probe while another caller
\* waits for the lock.
C1_Witness ==
    \E p, q \in Procs :
        /\ h[p].pc = "i_probe"
        /\ Len(h[p].todo) < Len(h[p].devs)
        /\ h[p].okProbes = {}
        /\ h[q].pc = "i_wait"

C3_IdempotentWhenReady ==
    [][\A p \in Procs :
          Woken(p) /\ entities_ready /\ h'[p] # h[p] =>
             /\ ~InPass(p)'
             /\ h'[p].pc # "i_wait"
             /\ lock' # p
             /\ UNCHANGED <<clients, media_players, available, adapters,
                            entities_ready, deviceState, devices>>]_vars

\* C3 witness: a caller is about to run its check with the session Ready.
C3_Witness == \E p \in Procs : Woken(p) /\ entities_ready

\* C4: in a pass over a non-empty registry a failed probe skips the device
\* and the pass goes on with the next one; the step that ends the pass has
\* processed every device and sets Ready and reports Connected iff a probe
\* of the pass succeeded, else it reports Error and leaves the session not
\* Ready.
C4_PartialInit ==
    [][\A p \in Procs :
          h[p].pc = "i_probe" /\ h'[p] # h[p] =>
             /\ h'[p].todo = Tail(h[p].todo)
             /\ h'[p].pc = IF Len(h[p].todo) > 1 THEN "i_probe" ELSE "i_exit"
             /\ h'[p].pc = "i_exit" =>
                   IF h'[p].okProbes # {}
                   THEN entities_ready' /\ deviceState' = "CONNECTED"
                   ELSE ~entities_ready' /\ deviceState' = "ERROR"]_vars

\* C4 witness: a pass has ended Ready and Connected with one device
\* registered and another one skipped.
C4_Witness ==
    \E p \in Procs :
        /\ h[p].pc = "i_exit"
        /\ h[p].okProbes # {}
        /\ h[p].okProbes # Range(h[p].devs)
        /\ entities_ready
        /\ deviceState = "CONNECTED"

\* Handler p takes a step of its own out of the status request of
\* push_update() in on_subscribe_entities.
SubStep(p) ==
    /\ h[p].pc = "sub_push"
    /\ h'[p].pc = "idle" \/ h'[p].ids # h[p].ids
\* The step is the clearing step of a pass, which also renumbers the
\* adapter objects left without a registry entry.
ClearStep == \E q \in Procs : h[q].pc = "i_clear" /\ h'[q].pc = "i_probe"
InitPcs == {"i_wait", "i_clear", "i_probe", "i_exit"}

\* C5 as stated: when setup_handler returns SetupComplete for device d, and
\* no probe of d failed in between, d is in the registry and a client and a
\* bound adapter for d exist - also when another pass was in progress when
\* setup ran.
C5_SetupPickedUp ==
    [][\A p \in Procs :
          /\ h[p].kind = "setup"
          /\ h'[p].kind = "idle"
          /\ event' = SetupResult(h[p].arg, "complete")
          /\ ~h[p].downSeen
          => /\ h[p].arg \in Range(devices')
             /\ h[p].arg \in DOMAIN clients'
             /\ h[p].arg \in DOMAIN media_players'
             /\ h[p].arg \in available']_vars

\* C6: a setup whose probe fails is answered CONNECTION_REFUSED and the
\* handler ends; the registry of devices (in memory and on disk), the
\* readiness flag, the client and adapter registries, the adapter objects
\* and the hub's entity set are unchanged.
C6_SetupRefused ==
    [][\A p \in Procs :
          \/ SetupProbe(p, FALSE)
          \/ h[p].pc = "s_probe" /\ h'[p].kind = "idle"
          => /\ event' = SetupResult(h[p].arg, "refused")
             /\ h'[p] = Idle
             /\ UNCHANGED <<devices, disk, entities_ready, clients,
                            media_players, available, adapters, lock,
                            deviceState>>]_vars

\* C6 witness: a setup was just refused in a session that is Ready and has a
\* device registered.
C6_Witness ==
    /\ event.type = "setup"
    /\ event.state = "refused"
    /\ entities_ready
    /\ media_players # <<>>

\* C7 as stated: a subscribe event in a session that is not Ready makes one
\* recovery call of initialize(), and when the session is not Ready after
\* the call the subscription is dropped: nothing is pushed and no
\* monitoring starts.
C7_RecoveryThenDrop ==
    [][\A p \in Procs :
          /\ \A ids \in SUBSET Devices :
                Subscribe(p, ids) /\ ~entities_ready =>
                   h'[p].kind = "subscribe" /\ h'[p].pc \in InitPcs
          /\ /\ h[p].kind = "subscribe"
             /\ h[p].pc \in InitPcs
             /\ h'[p].pc \notin InitPcs
             /\ ~entities_ready
             => /\ h'[p] = Idle
                /\ event' = NoEvent
                /\ adapters' = adapters]_vars

\* C7 amended: a subscribe event in a session that is not Ready makes one
\* recovery call when the registry has a device and none when it is empty;
\* the call is never repeated within the event; when the event makes no
\* call, or the pass of its call registered no adapter, the subscription is
\* dropped: nothing is pushed, no monitoring starts, the handler ends.
C7_OneRecoveryIfConfigured ==
    [][\A p \in Procs :
          /\ \A ids \in SUBSET Devices :
                Subscribe(p, ids) /\ ~entities_ready =>
                   IF IsConfigured(devices)
                   THEN h'[p].kind = "subscribe" /\ h'[p].pc \in InitPcs
                   ELSE /\ h'[p] = Idle
                        /\ event' = NoEvent
                        /\ UNCHANGED <<lock, waiters, deviceState,
                                       entities_ready, clients,
                                       media_players, available>>
          /\ h[p].kind = "subscribe" /\ h[p].pc \notin InitPcs =>
                h'[p].pc \notin InitPcs
          /\ h[p].kind = "subscribe" /\ h[p].pc \in {"i_probe", "i_exit"} =>
                h'[p].pc \notin {"i_wait", "i_clear"}
          /\ /\ h[p].kind = "subscribe"
             /\ h[p].pc = "i_exit"
             /\ h[p].okProbes = {}
             /\ h'[p] # h[p]
             => /\ h'[p] = Idle
                /\ event' = NoEvent
                /\ adapters' = adapters]_vars

\* C7 witness: the recovery pass of a subscribe event for some id has ended
\* without an adapter, the session not Ready.
C7_Witness ==
    \E p \in Procs :
        /\ h[p].kind = "subscribe"
        /\ h[p].pc = "i_exit"
        /\ h[p].okProbes = {}
        /\ h[p].ids # {}
        /\ ~entities_ready

\* C8: the step of on_subscribe_entities that ends the status request for
\* a matched adapter pushes that adapter's state and starts its monitoring,
\* and changes no other adapter; monitoring of an adapter starts in no other
\* step, so never before the push; the adapter a subscribe event turns to
\* is the bound adapter of an id of its list; an event none of whose ids is
\* bound ends at once, with no push and no change of the registries.
C8_PushThenMonitor ==
    [][/\ \A p \in Procs :
             SubStep(p) =>
                LET a == h[p].ref
                IN  /\ event'.type = "push"
                    /\ event'.by = "subscribe"
                    /\ event'.devs = {adapters[a].dev}
                    /\ adapters'[a].monitoring
                    /\ adapters'[a].task = "run"
                    /\ adapters[a].dev \notin h'[p].ids
                    /\ \A b \in AdapterIds \ {a} : adapters'[b] = adapters[b]
       /\ \A a \in AdapterIds :
             /\ ~ClearStep
             /\ adapters[a] # NoAdapter /\ adapters'[a] # NoAdapter
             /\ ~adapters[a].monitoring /\ adapters'[a].monitoring
             => /\ \E p \in Procs : SubStep(p) /\ h[p].ref = a
                /\ event'.type = "push"
                /\ event'.devs = {adapters[a].dev}
       /\ \A p \in Procs :
             /\ h'[p].pc = "sub_push"
             /\ SubStep(p) \/ h[p].pc # "sub_push"
             => LET d == adapters'[h'[p].ref].dev
                IN  /\ d \in DOMAIN media_players'
                    /\ media_players'[d] = h'[p].ref
                    /\ d \notin h'[p].ids
                    /\ h[p].kind = "subscribe" => d \in h[p].ids
       /\ \A p \in Procs, ids \in SUBSET Devices :
             Subscribe(p, ids) /\ entities_ready =>
                IF ids \cap DOMAIN media_players = {}
                THEN /\ h'[p] = Idle
                     /\ event' = NoEvent
                     /\ UNCHANGED <<clients, media_players, available,
                                    entities_ready, deviceState, lock>>
                     /\ \A a \in AdapterIds :
                           adapters[a] # NoAdapter =>
                              /\ adapters'[a].monitoring
                                    = adapters[a].monitoring
                              /\ adapters'[a].task = adapters[a].task
                ELSE /\ h'[p].pc = "sub_push"
                     /\ adapters[h'[p].ref].dev \in ids]_vars

\* C8 witness: a subscribe event for two ids, one of them bound, has just
\* pushed the state of the bound adapter and started its monitoring.
C8_Witness ==
    /\ event.type = "push"
    /\ event.by = "subscribe"
    /\ \E d \in event.devs :
          /\ d \in DOMAIN media_players
          /\ adapters[media_players[d]].monitoring
          /\ adapters[media_players[d]].task = "run"
          /\ Devices \ DOMAIN media_players # {}

\* C9 as stated: once on_unsubscribe_entities has run for an entity id, the
\* periodic loop pushes nothing for that id until it is subscribed again.
C9_NoPushAfterUnsubscribe ==
    [][\A a \in AdapterIds, answers \in BOOLEAN :
          PeriodicUpdate(a, answers) /\ event'.type = "push" =>
             ~adapters[a].unsub]_vars

\* C10: on_unsubscribe_entities changes nothing but the monitoring of the
\* bound adapters of its ids: the registries, the hub's entity set, the
\* readiness flag, and the entity id, the connectivity flag and the client
\* of every adapter are as before, and the bound adapters of the ids are
\* left without a periodic task.
C10_UnsubscribeOnlyStops ==
    [][\A ids \in SUBSET Devices :
          Unsubscribe(ids) =>
             /\ UNCHANGED <<devices, disk, clients, media_players, available,
                            entities_ready, deviceState, lock, waiters, h>>
             /\ \A a \in AdapterIds :
                   IF adapters[a] = NoAdapter
                   THEN adapters'[a] = NoAdapter
                   ELSE /\ adapters'[a].dev = adapters[a].dev
                        /\ adapters'[a].connected = adapters[a].connected
                        /\ adapters'[a].client = adapters[a].client
                        /\ \/ adapters'[a].monitoring = adapters[a].monitoring
                              /\ adapters'[a].task = adapters[a].task
                           \/ /\ adapters[a].dev \in ids
                              /\ media_players[adapters[a].dev] = a
             /\ \A d \in ids \cap DOMAIN media_players :
                   /\ ~adapters'[media_players[d]].monitoring
                   /\ adapters'[media_players[d]].task = "none"]_vars

\* C10 witness: the monitoring of a bound adapter was just stopped; the
\* session is Ready and the adapter is still bound, connected and has its
\* client.
C10_Witness ==
    /\ event.type = "stop"
    /\ entities_ready
    /\ \E d \in event.devs :
          /\ d \in DOMAIN media_players
          /\ d \in DOMAIN clients
          /\ d \in available
          /\ adapters[media_players[d]].connected
          /\ adapters[media_players[d]].client.is_connected
          /\ ~adapters[media_players[d]].monitoring

(***************************************************************************)
(* The connectivity monitor (_monitor_connection), run next to the passes  *)
(* of _initialize_entities that setup_handler and on_connect start.        *)
(***************************************************************************)

\* Task m of MonitorIds exists once on_connect has created it.
Active(m) == m <= monitors

\* clients.items(): a pass inserts the clients in the order of its snapshot
\* of the registry, which only ever grows at its end.
ClientOrder == SelectSeq(devices, LAMBDA d : d \in DOMAIN clients)

\* Fault: the exception ends the task.
MonRaise_Uncaught(rec) == [NewMonitor EXCEPT !.pc = "dead"]

\* _monitor_connection: an exception in the body of the loop is logged and
\* the task sleeps 60 s.
MonRaise(rec) == [NewMonitor EXCEPT !.pc = "backoff"]

\* Fault: a pass with a lost device reports Error.
MonReport_Error(rec) == IF rec.all_connected THEN "CONNECTED" ELSE "ERROR"

\* _monitor_connection, after the for loop: Connected is reported (unless
\* it is the state already) when no query failed, else Connecting.
MonReport(rec) == IF rec.all_connected THEN "CONNECTED" ELSE "CONNECTING"

\* _monitor_connection: the for statement asks the iterator for the next
\* item.  The dict iterator raises RuntimeError when the size of the dict is
\* not the size it had when the loop began; else it goes on at its position
\* in the dict as it now is.  With an item, get_status() is called, which
\* returns None at once for a client not marked connected, so that connect()
\* is called; without one the pass ends with its report and the task sleeps
\* 30 s.
MonGoOn(m, rec) ==
    LET order == ClientOrder
    IN  IF Len(order) # rec.used
        THEN /\ mon' = [mon EXCEPT ![m] = MonRaise(rec)]
             /\ UNCHANGED deviceState
        ELSE IF rec.pos < Len(order)
        THEN LET d == order[rec.pos + 1]
                 sent == clients[d].is_connected
             IN  /\ mon' = [mon EXCEPT ![m] =
                       [rec EXCEPT !.pos = @ + 1, !.cur = d,
                           !.all_connected = @ /\ sent,
                           !.pc = IF sent THEN "status" ELSE "reconnect"]]
                 /\ UNCHANGED deviceState
        ELSE /\ mon' = [mon EXCEPT ![m] = [NewMonitor EXCEPT !.pc = "sleep"]]
             /\ deviceState' = MonReport(rec)

\* _monitor_connection, head of the loop: a pass begins when there are
\* clients and the session is ready, else the task sleeps 30 s.
MonTop(m) ==
    /\ Active(m)
    /\ mon[m].pc = "top"
    /\ IF DOMAIN clients # {} /\ entities_ready
       THEN MonGoOn(m, [NewMonitor EXCEPT !.used = Len(ClientOrder)])
       ELSE /\ mon' = [mon EXCEPT ![m] = [NewMonitor EXCEPT !.pc = "sleep"]]
            /\ UNCHANGED deviceState
    /\ event' = NoEvent
    /\ UNCHANGED <<devices, disk, entities_ready, lock, waiters, clients,
                   media_players, available, adapters, monitors, h,
                   unitVars>>

\* _monitor_connection: the status query returns.  Without a status the
\* pass is marked and connect() is called.
MonStatus(m, answers) ==
    /\ mon[m].pc = "status"
    /\ IF answers
       THEN MonGoOn(m, mon[m])
       ELSE /\ mon' = [mon EXCEPT ![m].all_connected = FALSE,
                                  ![m].pc = "reconnect"]
            /\ UNCHANGED deviceState
    /\ event' = NoEvent
    /\ UNCHANGED <<devices, disk, entities_ready, lock, waiters, clients,
                   media_players, available, adapters, monitors, h,
                   unitVars>>

\* _monitor_connection: connect() returns; whatever its result, the loop
\* goes on to the next client.
MonReconnect(m, answers) ==
    /\ mon[m].pc = "reconnect"
    /\ clients' = [d \in DOMAIN clients |->
                     IF d = mon[m].cur
                     THEN ClientConnect(clients[d], answers).client
                     ELSE clients[d]]
    /\ MonGoOn(m, mon[m])
    /\ event' = NoEvent
    /\ UNCHANGED <<devices, disk, entities_ready, lock, waiters,
                   media_players, available, adapters, monitors, h,
                   unitVars>>

\* _monitor_connection: the sleep of 30 s, or of 60 s after an exception,
\* ends and the loop starts over.
MonWake(m) ==
    /\ mon[m].pc \in {"sleep", "backoff"}
    /\ mon' = [mon EXCEPT ![m] = NewMonitor]
    /\ event' = NoEvent
    /\ UNCHANGED <<devices, disk, entities_ready, lock, waiters, deviceState,
                   clients, media_players, available, adapters, monitors, h,
                   unitVars>>

\* The monitor task whose steps are followed: the first one created.  The
\* tasks share nothing but api.device_state, which each of them only writes.
Watched == {1}

MonStep(m) ==
    \/ MonTop(m)
    \/ MonWake(m)
    \/ \E answers \in BOOLEAN : MonStatus(m, answers)
    \/ \E answers \in BOOLEAN : MonReconnect(m, answers)

MonNext ==
    \/ \E p \in Procs : PreInit(p)
    \/ \E p \in Procs : Connect(p)
    \/ \E p \in Procs : ConnectState(p)
    \/ \E p \in Procs, d \in Devices, valid \in BOOLEAN : Setup(p, d, valid)
    \/ \E p \in Procs, answers \in BOOLEAN : SetupProbe(p, answers)
    \/ \E p \in Procs : InitResume(p)
    \/ \E p \in Procs : InitClear(p)
    \/ \E p \in Procs, answers \in BOOLEAN : InitProbe(p, answers)
    \/ \E p \in Procs : InitExit(p)
    \/ \E m \in Watched : MonTop(m)
    \/ \E m \in Watched : MonWake(m)
    \/ \E m \in Watched, answers \in BOOLEAN : MonStatus(m, answers)
    \/ \E m \in Watched, answers \in BOOLEAN : MonReconnect(m, answers)

MonSpec == Init /\ [][MonNext]_vars

\* Every sleep of a monitor ends and every request it sent returns (each
\* carries a timeout of 5 s).
MonFairSpec == MonSpec /\ \A m \in Watched : WF_vars(MonStep(m))

\* C11 as stated: at most one _monitor_connection task exists, whatever
\* hub connect events arrive (no task ever ends, so the tasks created are
\* the tasks running).
C11_AtMostOneMonitor == monitors <= 1

\* C12: a pass of the monitor ends with the device state Connected when no
\* status query of the pass failed, and Connecting when one failed, also
\* when the reconnect after it succeeded; a failed query marks the pass and
\* the mark stays until the pass ends; no step of the monitor makes the
\* device state Error.
C12_MonitorReport ==
    [][\A m \in Watched :
          /\ mon[m].pc \in {"status", "reconnect"} /\ mon'[m].pc = "sleep" =>
                deviceState' = IF mon[m].pc = "status" /\ mon[m].all_connected
                               THEN "CONNECTED" ELSE "CONNECTING"
          /\ mon'[m].pc = "reconnect" => ~mon'[m].all_connected
          /\ /\ mon[m].pc \in {"status", "reconnect"}
             /\ mon'[m].pc \in {"status", "reconnect"}
             /\ ~mon[m].all_connected
             => ~mon'[m].all_connected
          /\ mon'[m] # mon[m] /\ deviceState' # deviceState =>
                deviceState' \in {"CONNECTED", "CONNECTING"}]_vars

\* C12 witness: no handler is running, the session is Ready, and a pass of
\* the monitor has left the device state Connecting.
C12_Witness ==
    /\ \E m \in Watched : mon[m].pc = "sleep"
    /\ \A p \in Procs : h[p].kind = "idle"
    /\ entities_ready
    /\ deviceState = "CONNECTING"

\* C13: a monitor task never ends; from each of its sleeps - the 30 s after
\* a pass, the 60 s after an exception in the body, such as the one the
\* iterator raises when a pass of _initialize_entities has emptied clients
\* under it - it comes back to the head of its loop, and from there it
\* reaches a sleep again.
C13_MonitorNeverEnds ==
    \A m \in Watched :
        /\ [](mon[m].pc # "dead")
        /\ (mon[m].pc \in {"sleep", "backoff"}) ~> (mon[m].pc = "top")
        /\ (Active(m) /\ mon[m].pc = "top")
              ~> (mon[m].pc \in {"sleep", "backoff"})

\* C13 witness: the iterator of a pass has raised, in the middle of the
\* pass, and the task sleeps its 60 s.
C13_Witness == \E m \in Watched : mon[m].pc = "backoff"

(***************************************************************************)
(* One VLCClient and one VLCMediaPlayer on their own (client.py,           *)
(* media_player.py): the calls are made one after the other, the device    *)
(* answers or fails each request as the environment decides, and it keeps  *)
(* the volume it is sent.                                                  *)
(***************************************************************************)

\* VLC's native volume scale and the hub's.
FullScale == 512
Percent == 100
\* The native volume assumed when none is known.
DefaultVolume == 256

\* Fault: the native scale taken to end at 256, VLC's 100%.
ToNative_HalfScale(v) == (v * DefaultVolume) \div Percent

\* VLCClient.set_volume: int((volume / 100) * 512).  The quotient and the
\* product are floating point; for an integer volume of 0..100 the product is
\* either exact (0, 25, 50, 75, 100) or at least 0.04 away from an integer,
\* so that int() gives the integer part of volume * 512 / 100.
ToNative(v) == (v * FullScale) \div Percent

\* VLCMediaPlayer.update_status: int((vlc_volume / 512) * 100).  A division
\* by 512 is exact, and the product is an integer or at least 1/128 away
\* from one: the integer part of vlc_volume * 100 / 512.
ToPercent(n) == (n * Percent) \div FullScale

\* The hub volumes the calls are tried with, and the native volumes the
\* device is at.
Percents == {0, 50, 75}
NativeVolumes == {ToNative(v) : v \in Percents}

\* What a call on the client comes to: its result, the client after it, the
\* volume of the device after it, the requests it sent.
Outcome(ok, c, vol, sent) ==
    [ok |-> ok, client |-> c, volume |-> vol, sent |-> sent]

\* Fault: the request is sent without looking at _is_connected.
SendCommand_Unchecked(c, cmd, answers) ==
    [ok |-> answers, sent |-> <<cmd>>]

\* VLCClient.send_command: False without a request when not marked
\* connected, else one request, True iff it is answered with 200.
SendCommand(c, cmd, answers) ==
    [ok |-> c.is_connected /\ answers,
     sent |-> IF c.is_connected THEN <<cmd>> ELSE <<>>]

\* VLCClient.get_status as a call of its own: the request it sends, if any.
StatusSent(c) == IF c.is_connected THEN <<"status">> ELSE <<>>

\* The wrappers that are one send_command and nothing else; the device's
\* volume is not touched.
Wrapper ==
    [play_pause |-> "pl_pause", stop |-> "pl_stop", next |-> "pl_next",
     previous |-> "pl_previous", seek |-> "seek", fast_forward |-> "seek",
     rewind |-> "seek", repeat |-> "pl_repeat", shuffle |-> "pl_random",
     play |-> "pl_forceresume", pause |-> "pl_forcepause",
     clear_playlist |-> "pl_empty", loop |-> "pl_loop",
     fullscreen |-> "fullscreen"]
\* The wrappers command_handler has no command for.
NotDispatched == {"play", "pause", "clear_playlist", "loop", "fullscreen"}
ClientSimple(c, dv, op, answers) ==
    LET r == SendCommand(c, Wrapper[op], answers)
    IN  Outcome(r.ok, c, dv, r.sent)

\* VLCClient.set_volume(v): the native value is sent, and kept by the
\* device when the request goes through.
ClientSetVolume(c, dv, v, answers) ==
    LET r == SendCommand(c, "volume", answers)
    IN  Outcome(r.ok, c, IF r.ok THEN ToNative(v) ELSE dv, r.sent)

\* VLCClient.volume_up / volume_down: "+20" / "-20" is sent; where the
\* device ends is its own business: at any volume nv.
ClientVolumeStep(c, dv, nv, answers) ==
    LET r == SendCommand(c, "volume", answers)
    IN  Outcome(r.ok, c, IF r.ok THEN nv ELSE dv, r.sent)

\* VLCClient.mute: with a status and a volume above 0 the volume is
\* remembered and 0 is sent; in every other case False is returned.
ClientMute(c, dv, a1, a2) ==
    IF GetStatus(c, a1) = "absent"
    THEN Outcome(FALSE, c, dv, StatusSent(c))
    ELSE IF dv > 0
         THEN LET r == SendCommand(c, "volume", a2)
              IN  Outcome(r.ok, [c EXCEPT !.stored = dv],
                          IF r.ok THEN 0 ELSE dv, StatusSent(c) \o r.sent)
         ELSE Outcome(FALSE, c, dv, StatusSent(c))

\* Fault: unmute always goes back to the default volume.
ClientUnmute_Default(c, dv, answers) ==
    LET r == SendCommand(c, "volume", answers)
    IN  Outcome(r.ok, c, IF r.ok THEN DefaultVolume ELSE dv, r.sent)

\* VLCClient.unmute: the remembered volume, or 256 when there is none, is
\* sent.
ClientUnmute(c, dv, answers) ==
    LET restore == IF c.stored = NoStored THEN DefaultVolume ELSE c.stored
        r == SendCommand(c, "volume", answers)
    IN  Outcome(r.ok, c, IF r.ok THEN restore ELSE dv, r.sent)

\* VLCClient.mute_toggle: with a status, 256 is sent at volume 0 and 0
\* otherwise; without one False.
ClientMuteToggle(c, dv, a1, a2) ==
    IF GetStatus(c, a1) = "absent"
    THEN Outcome(FALSE, c, dv, StatusSent(c))
    ELSE LET r == SendCommand(c, "volume", a2)
             to == IF dv = 0 THEN DefaultVolume ELSE 0
         IN  Outcome(r.ok, c, IF r.ok THEN to ELSE dv,
                     StatusSent(c) \o r.sent)

\* The calls made on the client, directly or by command_handler, named by
\* the command id: v is the volume given to set_volume, nv the volume the
\* device ends at after volume_up / volume_down, bad a parameter that is
\* not a number, a1 and a2 the fate of the first and second request.
SimpleOps == DOMAIN Wrapper \ NotDispatched
Call(op, v, nv, a1, a2) ==
    [op |-> op, v |-> v, nv |-> nv, bad |-> FALSE, a1 |-> a1, a2 |-> a2]
VolumeCalls(vs) == {Call("volume", v, 0, a, TRUE) : v \in vs, a \in BOOLEAN}
Calls ==
    {Call(op, 0, 0, a, TRUE) : op \in SimpleOps \cup {"unmute"},
                               a \in BOOLEAN}
    \cup VolumeCalls(Percents)
    \cup {Call(op, 0, nv, a, TRUE) : op \in {"volume_up", "volume_down"},
                                     nv \in NativeVolumes, a \in BOOLEAN}
    \cup {Call(op, 0, 0, a1, a2) : op \in {"mute", "mute_toggle"},
                                   a1 \in BOOLEAN, a2 \in BOOLEAN}

\* The calls made on the client directly: those and the wrappers
\* command_handler does not use.
ClientCalls ==
    Calls \cup {Call(op, 0, 0, a, TRUE) : op \in NotDispatched,
                                          a \in BOOLEAN}

\* What the hub can ask command_handler for: the calls above, the same with
\* a volume or position that is not a number, and a command id it does not
\* know.
Requests ==
    Calls
    \cup {[Call(op, 0, 0, TRUE, TRUE) EXCEPT !.bad = TRUE] :
             op \in {"volume", "seek"}}
    \cup {Call("unknown", 0, 0, TRUE, TRUE)}

\* The client method behind a command id.
ClientCall(c, dv, call) ==
    CASE call.op \in DOMAIN Wrapper ->
            ClientSimple(c, dv, call.op, call.a1)
      [] call.op = "volume" -> ClientSetVolume(c, dv, call.v, call.a1)
      [] call.op \in {"volume_up", "volume_down"} ->
            ClientVolumeStep(c, dv, call.nv, call.a1)
      [] call.op = "mute" -> ClientMute(c, dv, call.a1, call.a2)
      [] call.op = "unmute" -> ClientUnmute(c, dv, call.a1)
      [] call.op = "mute_toggle" ->
            ClientMuteToggle(c, dv, call.a1, call.a2)

\* The status documents of a device, the volume left out: what plays (with a
\* title, without one, nothing), in which state, with which flags.
Media ==
    {[meta |-> FALSE, title |-> "", artist |-> "", album |-> "",
      time |-> 0, length |-> 0],
     [meta |-> TRUE, title |-> "t", artist |-> "a", album |-> "b",
      time |-> 7, length |-> 9],
     [meta |-> TRUE, title |-> "", artist |-> "a", album |-> "",
      time |-> 7, length |-> 9]}
NativeStates == {"playing", "paused", "stopped", "opening"}
Docs ==
    {[state |-> st, volume |-> 0, media |-> md, loop |-> lp, repeat |-> rp,
      random |-> rd] :
        st \in NativeStates, md \in Media, lp \in BOOLEAN, rp \in BOOLEAN,
        rd \in BOOLEAN}
\* The same with one medium and one state only.
PlainDocs ==
    {doc \in Docs : doc.state = "playing" /\ ~doc.media.meta
                    /\ ~doc.loop /\ ~doc.repeat /\ ~doc.random}
\* The status document of a device whose volume is dv.
StatusOf(doc, dv) == [doc EXCEPT !.volume = dv]

\* Fault: a poll without a status also forgets what is playing.
LostStatus_Clearing(pl) ==
    [pl EXCEPT !.state = "UNAVAILABLE", !.title = "", !.artist = "",
               !.album = "", !.image = "", !.position = 0, !.duration = 0]

\* VLCMediaPlayer.update_status without a status: the state alone changes.
LostStatus(pl) == [pl EXCEPT !.state = "UNAVAILABLE"]

\* Fault: the repeat flag wins over the loop flag.
RepeatMode_RepeatFirst(doc) ==
    IF doc.repeat THEN "ONE" ELSE IF doc.loop THEN "ALL" ELSE "OFF"

\* VLCMediaPlayer.update_status, repeat mode: loop, else repeat, else off.
RepeatMode(doc) ==
    IF doc.loop THEN "ALL" ELSE IF doc.repeat THEN "ONE" ELSE "OFF"

\* VLCMediaPlayer.update_status, state.
PlayerStateOf(st) ==
    CASE st = "playing" -> "PLAYING"
      [] st = "paused" -> "PAUSED"
      [] st = "stopped" -> "OFF"
      [] OTHER -> "ON"

\* Fault: a status document without metadata leaves the cached title,
\* artist, album and image as they were.
ParseStatus_Merging(pl, doc) ==
    LET st == PlayerStateOf(doc.state)
        md == doc.media
    IN  [pl EXCEPT
           !.state = st,
           !.position = md.time,
           !.duration = md.length,
           !.volume = ToPercent(doc.volume),
           !.muted = (doc.volume = 0),
           !.title = IF md.meta THEN md.title ELSE @,
           !.artist = IF md.meta THEN md.artist ELSE @,
           !.album = IF md.meta THEN md.album ELSE @,
           !.image = IF md.meta
                     THEN IF md.title # "" /\ st # "OFF" THEN "art" ELSE ""
                     ELSE @,
           !.repeat = RepeatMode(doc),
           !.shuffle = doc.random]

\* VLCMediaPlayer.update_status with a status document: every cached
\* attribute is assigned.
ParseStatus(pl, doc) ==
    LET st == PlayerStateOf(doc.state)
        md == doc.media
    IN  [pl EXCEPT
           !.state = st,
           !.position = md.time,
           !.duration = md.length,
           !.volume = ToPercent(doc.volume),
           !.muted = (doc.volume = 0),
           !.title = IF md.meta THEN md.title ELSE "",
           !.artist = IF md.meta THEN md.artist ELSE "",
           !.album = IF md.meta THEN md.album ELSE "",
           !.image = IF md.meta /\ md.title # "" /\ st # "OFF"
                     THEN "art" ELSE "",
           !.repeat = RepeatMode(doc),
           !.shuffle = doc.random]

\* VLCMediaPlayer.update_status: nothing when the adapter is not connected.
UpdateStatus(pl, c, answers, doc) ==
    IF ~pl.connected THEN pl
    ELSE IF GetStatus(c, answers) = "absent" THEN LostStatus(pl)
    ELSE ParseStatus(pl, doc)
\* What update_status got from the client: nothing asked, no status, a
\* status.
PollResult(pl, c, answers) ==
    IF ~pl.connected THEN "skipped" ELSE GetStatus(c, answers)
\* The document update_status parsed, if any.
PollSeen(pl, c, answers, doc) ==
    IF PollResult(pl, c, answers) = "status" THEN doc ELSE NoDoc
\* The request update_status sends.
UpdateSent(pl, c) == IF pl.connected THEN StatusSent(c) ELSE <<>>

\* The variables of the session, which the calls on the two objects leave
\* alone.
sessionVars == <<devices, disk, entities_ready, lock, waiters, deviceState,
                 clients, media_players, available, adapters, monitors, h,
                 event, mon>>

Bool(b) == IF b THEN "True" ELSE "False"

\* VLCClient.connect() on the client.
ClientConnectCall(answers) ==
    /\ ~player.pending
    /\ vclient' = ClientConnect(vclient, answers).client
    /\ reply' = [NoReply EXCEPT !.op = "connect", !.sent = <<"status">>,
                                !.ret = Bool(ClientConnect(vclient, answers).ok)]
    /\ UNCHANGED <<vlc, player, sessionVars>>

\* VLCClient.disconnect() on the client.
ClientDisconnectCall ==
    /\ ~player.pending
    /\ vclient' = ClientDisconnect(vclient)
    /\ reply' = [NoReply EXCEPT !.op = "disconnect"]
    /\ UNCHANGED <<vlc, player, sessionVars>>

\* VLCClient.get_status() on the client.
ClientStatusCall(answers) ==
    /\ ~player.pending
    /\ reply' = [NoReply EXCEPT !.op = "get_status",
                                !.ret = GetStatus(vclient, answers),
                                !.sent = StatusSent(vclient)]
    /\ UNCHANGED <<vclient, vlc, player, sessionVars>>

\* VLCClient.get_album_art() on the client.
ClientArtCall(answers) ==
    /\ ~player.pending
    /\ reply' = [NoReply EXCEPT
                   !.op = "get_album_art",
                   !.ret = IF vclient.is_connected /\ answers THEN "art"
                           ELSE "absent",
                   !.sent = IF vclient.is_connected THEN <<"art">>
                            ELSE <<>>]
    /\ UNCHANGED <<vclient, vlc, player, sessionVars>>

\* One of the command methods of VLCClient, called on the client.
ClientOp(call) ==
    /\ ~player.pending
    /\ LET o == ClientCall(vclient, vlc.volume, call)
       IN  /\ vclient' = o.client
           /\ vlc' = [vlc EXCEPT !.volume = o.volume]
           /\ reply' = [NoReply EXCEPT !.op = call.op, !.arg = call.v,
                                       !.ret = Bool(o.ok), !.sent = o.sent]
    /\ UNCHANGED <<player, sessionVars>>

\* VLCMediaPlayer.update_attributes(), as the periodic task and
\* push_update() call it: update_status(), then the push of every attribute.
PlayerPoll(answers, doc) ==
    /\ ~player.pending
    /\ player' = UpdateStatus(player, vclient, answers,
                             StatusOf(doc, vlc.volume))
    /\ reply' = [NoReply EXCEPT !.op = "update_attributes",
                                !.ret = PollResult(player, vclient, answers),
                                !.seen = PollSeen(player, vclient, answers,
                                                  StatusOf(doc, vlc.volume)),
                                !.sent = UpdateSent(player, vclient),
                                !.pushed = TRUE]
    /\ UNCHANGED <<vclient, vlc, sessionVars>>

\* VLCMediaPlayer.connect()
PlayerConnect ==
    /\ ~player.pending
    /\ player' = [player EXCEPT !.connected = TRUE]
    /\ reply' = [NoReply EXCEPT !.op = "player_connect", !.ret = "True"]
    /\ UNCHANGED <<vclient, vlc, sessionVars>>

\* Fault: start_monitoring creates a task whatever the flag.
TaskStart_Unguarded(pl) ==
    [pl EXCEPT !.monitoring = TRUE, !.ntasks = @ + 1]

\* VLCMediaPlayer.start_monitoring(): the flag is set and a task created,
\* unless the flag is set already.
TaskStart(pl) ==
    IF ~pl.monitoring
    THEN [pl EXCEPT !.monitoring = TRUE, !.ntasks = @ + 1]
    ELSE pl

\* VLCMediaPlayer.stop_monitoring(): with the flag set, the flag is cleared
\* and the task of _update_task, if it has not ended, is cancelled.
TaskStop(pl) ==
    IF pl.monitoring
    THEN [pl EXCEPT !.monitoring = FALSE,
                    !.ntasks = IF @ > 0 THEN @ - 1 ELSE 0,
                    !.polls = @ \ {"periodic"}]
    ELSE pl

\* VLCMediaPlayer.disconnect(): stop_monitoring() and the flag cleared.
PlayerDisconnect ==
    /\ ~player.pending
    /\ player' = [TaskStop(player) EXCEPT !.connected = FALSE]
    /\ reply' = [NoReply EXCEPT !.op = "player_disconnect"]
    /\ UNCHANGED <<vclient, vlc, sessionVars>>

\* VLCMediaPlayer.start_monitoring() on the adapter.
StartMonitoringCall ==
    /\ ~player.pending
    /\ player.monitoring \/ player.ntasks < MaxTasks
    /\ player' = TaskStart(player)
    /\ reply' = [NoReply EXCEPT !.op = "start_monitoring",
                                !.ret = IF player.monitoring THEN "kept"
                                        ELSE "started"]
    /\ UNCHANGED <<vclient, vlc, sessionVars>>

\* VLCMediaPlayer.stop_monitoring() on the adapter.
StopMonitoringCall ==
    /\ ~player.pending
    /\ player' = TaskStop(player)
    /\ reply' = [NoReply EXCEPT !.op = "stop_monitoring",
                                !.ret = IF player.monitoring THEN "stopped"
                                        ELSE "kept"]
    /\ UNCHANGED <<vclient, vlc, sessionVars>>

\* _periodic_update, one turn of a task of the adapter: the sleep of 3 s
\* ends, with the flag set update_attributes() polls and pushes, and the
\* loop ends unless the adapter is connected and monitoring.
PeriodicTurn(answers, doc) ==
    /\ ~player.pending
    /\ player.ntasks > 0
    /\ LET polled == IF player.monitoring
                     THEN UpdateStatus(player, vclient, answers,
                                       StatusOf(doc, vlc.volume))
                     ELSE player
       IN  player' = [polled EXCEPT !.ntasks =
                         IF player.connected /\ player.monitoring
                         THEN @ ELSE @ - 1]
    /\ reply' = IF player.monitoring
                THEN [NoReply EXCEPT
                        !.op = "periodic",
                        !.ret = PollResult(player, vclient, answers),
                        !.seen = PollSeen(player, vclient, answers,
                                          StatusOf(doc, vlc.volume)),
                        !.sent = UpdateSent(player, vclient),
                        !.pushed = TRUE]
                ELSE [NoReply EXCEPT !.op = "periodic"]
    /\ UNCHANGED <<vclient, vlc, sessionVars>>

\* Fault: a command of an adapter that is not connected is tried anyway.
Dispatch_Unguarded(call) ==
    /\ ~player.pending
    /\ call.op # "unknown" /\ ~call.bad
    /\ LET o == ClientCall(vclient, vlc.volume, call)
       IN  /\ vclient' = o.client
           /\ vlc' = [vlc EXCEPT !.volume = o.volume]
           /\ player' = [player EXCEPT !.pending = o.ok]
           /\ reply' = [NoReply EXCEPT
                          !.op = "command", !.sent = o.sent,
                          !.ret = IF o.ok THEN "pending"
                                  ELSE "SERVER_ERROR"]
    /\ UNCHANGED sessionVars

\* VLCMediaPlayer.command_handler up to its return or its sleep of 0.5 s:
\* SERVICE_UNAVAILABLE for an adapter not connected, NOT_IMPLEMENTED for a
\* command id it does not know, SERVER_ERROR when the parameter makes the
\* call raise or the client method returns False.
Dispatch(call) ==
    /\ ~player.pending
    /\ IF ~player.connected
       THEN /\ reply' = [NoReply EXCEPT !.op = "command",
                                        !.ret = "SERVICE_UNAVAILABLE"]
            /\ UNCHANGED <<vclient, vlc, player>>
       ELSE IF call.op = "unknown"
       THEN /\ reply' = [NoReply EXCEPT !.op = "command",
                                        !.ret = "NOT_IMPLEMENTED"]
            /\ UNCHANGED <<vclient, vlc, player>>
       ELSE IF call.bad
       THEN /\ reply' = [NoReply EXCEPT !.op = "command",
                                        !.ret = "SERVER_ERROR"]
            /\ UNCHANGED <<vclient, vlc, player>>
       ELSE LET o == ClientCall(vclient, vlc.volume, call)
            IN  /\ vclient' = o.client
                /\ vlc' = [vlc EXCEPT !.volume = o.volume]
                /\ player' = [player EXCEPT !.pending = o.ok]
                /\ reply' = [NoReply EXCEPT
                               !.op = "command", !.sent = o.sent,
                               !.ret = IF o.ok THEN "pending"
                                       ELSE "SERVER_ERROR"]
    /\ UNCHANGED sessionVars

\* Fault: OK is returned without the refresh.
DispatchDone_NoRefresh(answers, doc) ==
    /\ player.pending
    /\ player' = [player EXCEPT !.pending = FALSE]
    /\ reply' = [reply EXCEPT !.ret = "OK"]
    /\ UNCHANGED <<vclient, vlc, sessionVars>>

\* VLCMediaPlayer.command_handler after the sleep: update_attributes() and
\* OK.
DispatchDone(answers, doc) ==
    /\ player.pending
    /\ player' = [UpdateStatus(player, vclient, answers,
                              StatusOf(doc, vlc.volume))
                    EXCEPT !.pending = FALSE]
    /\ reply' = [reply EXCEPT !.ret = "OK", !.pushed = TRUE,
                              !.seen = PollSeen(player, vclient, answers,
                                                StatusOf(doc, vlc.volume)),
                              !.sent = @ \o UpdateSent(player, vclient)]
    /\ UNCHANGED <<vclient, vlc, sessionVars>>

\* The two objects on their own: the session has no device configured
\* and does nothing.
UnitInit == Init /\ devices = <<>>

\* The client alone: every method of VLCClient, on a device that answers or
\* does not.
ClientNext ==
    \/ \E answers \in BOOLEAN : ClientConnectCall(answers)
    \/ ClientDisconnectCall
    \/ \E answers \in BOOLEAN : ClientStatusCall(answers)
    \/ \E answers \in BOOLEAN : ClientArtCall(answers)
    \/ \E call \in ClientCalls : ClientOp(call)

ClientSpec == UnitInit /\ [][ClientNext]_vars

\* The adapter polling its client, the volume of the device changing
\* between the polls.
PollNext ==
    \/ \E answers \in BOOLEAN : ClientConnectCall(answers)
    \/ ClientDisconnectCall
    \/ \E call \in VolumeCalls(Percents) : ClientOp(call)
    \/ \E answers \in BOOLEAN, doc \in Docs :
          PlayerPoll(answers, doc)
    \/ PlayerConnect
    \/ PlayerDisconnect

PollSpec == UnitInit /\ [][PollNext]_vars

\* The commands of the hub on the adapter.
DispatchNext ==
    \/ \E answers \in BOOLEAN : ClientConnectCall(answers)
    \/ ClientDisconnectCall
    \/ PlayerConnect
    \/ PlayerDisconnect
    \/ \E call \in Requests : Dispatch(call)
    \/ \E answers \in BOOLEAN, doc \in PlainDocs :
          DispatchDone(answers, doc)

DispatchSpec == UnitInit /\ [][DispatchNext]_vars

\* The volume round trip: every volume of the hub's scale set on a device
\* that takes the request, and a poll of the adapter after it.
VolNext ==
    \/ \E answers \in BOOLEAN : ClientConnectCall(answers)
    \/ \E call \in {k \in VolumeCalls(0..Percent) : k.a1} : ClientOp(call)
    \/ \E answers \in BOOLEAN, doc \in PlainDocs :
          PlayerPoll(answers, doc)

VolSpec == UnitInit /\ [][VolNext]_vars

\* ---------------------------------------------------------------------
\* The adapter's cache

\* The cached attributes other than the state.
Rest(pl) == [pl EXCEPT !.state = "", !.connected = TRUE, !.pending = FALSE]

C15_StatusMapping ==
    [][ (reply'.op = "update_attributes" /\ reply'.ret = "status")
          => LET doc == reply'.seen
             IN  /\ doc.volume = vlc.volume
                 /\ player'.state \in {"PLAYING", "PAUSED", "OFF", "ON"}
                 /\ player'.state = "PLAYING" <=> doc.state = "playing"
                 /\ player'.state = "PAUSED" <=> doc.state = "paused"
                 /\ player'.state = "OFF" <=> doc.state = "stopped"
                 /\ player'.volume * FullScale <= doc.volume * Percent
                 /\ (player'.volume + 1) * FullScale > doc.volume * Percent
                 /\ doc.volume = 384 => player'.volume = 75
                 /\ player'.muted = (doc.volume = 0)
                 /\ player'.repeat \in {"ALL", "ONE", "OFF"}
                 /\ player'.repeat = "ALL" <=> doc.loop
                 /\ player'.repeat = "ONE" <=> (~doc.loop /\ doc.repeat)
                 /\ player'.shuffle = doc.random
      ]_vars

\* The status of the example: playing at 384 with the random and repeat
\* flags and without the loop flag has been polled.
C15_Witness ==
    /\ reply.op = "update_attributes" /\ reply.ret = "status"
    /\ reply.seen.state = "playing" /\ reply.seen.volume = 384
    /\ reply.seen.random /\ ~reply.seen.loop /\ reply.seen.repeat
    /\ player.state = "PLAYING" /\ player.volume = 75 /\ ~player.muted
    /\ player.repeat = "ONE" /\ player.shuffle

\* C16: a volume v of 0..100 set on a connected client whose device takes
\* the request, and polled back next, is cached as v - 1 or v (never more
\* than 1 away), as 0 for 0 and as 100 for 100.
C16_VolumeRoundTrip ==
    [][ ( /\ reply.op = "volume" /\ reply.ret = "True"
          /\ reply'.op = "update_attributes" /\ reply'.ret = "status" )
          => /\ reply'.seen.volume = vlc.volume
             /\ player'.volume - reply.arg \in {-1, 0, 1}
             /\ reply.arg = 0 => player'.volume = 0
             /\ reply.arg = Percent => player'.volume = Percent
      ]_vars

\* 33 was set, went to the device as 168 and has come back as 32.
C16_Witness ==
    /\ reply.op = "update_attributes" /\ reply.ret = "status"
    /\ vlc.volume = 168 /\ vlc.volume = ToNative(33)
    /\ player.volume = 32

\* ---------------------------------------------------------------------
\* The client

\* C17: a mute that succeeds at a volume above 0 remembers that volume and
\* leaves the device at 0; nothing but a mute changes what is remembered;
\* an unmute that succeeds after it leaves the device at exactly the
\* remembered volume.
C17_MuteUnmuteRestores ==
    [][ /\ (reply'.op = "mute" /\ reply'.ret = "True")
             => /\ vlc.volume > 0
                /\ vclient'.stored = vlc.volume
                /\ vlc'.volume = 0
        /\ vclient'.stored # vclient.stored
             => reply'.op = "mute" /\ vlc.volume > 0
        /\ (reply'.op = "unmute" /\ reply'.ret = "True"
                                 /\ vclient.stored # NoStored)
             => vlc'.volume = vclient.stored /\ vlc'.volume > 0
      ]_vars

\* The device was muted at 384 and an unmute has just brought it back from 0
\* to 384.
C17_Witness ==
    /\ reply.op = "unmute" /\ reply.ret = "True"
    /\ vclient.stored = 384 /\ vlc.volume = 384

\* C18: a mute on a connected client whose device answers the status query
\* with volume 0 sends no volume command, leaves the remembered volume
\* alone, and returns True.
C18_MuteAtZeroSucceeds ==
    [][ \A call \in Calls :
          ( /\ call.op = "mute" /\ call.a1
            /\ vclient.is_connected /\ vlc.volume = 0
            /\ ClientOp(call) )
          => /\ reply'.sent = <<"status">>
             /\ vclient'.stored = vclient.stored
             /\ reply'.ret = "True"
      ]_vars

\* C19: a status query, an artwork query or any command method called on a
\* client that is not marked connected sends nothing to the device, returns
\* False or no status, and changes neither the client nor the device.
C19_NotConnectedNoRequest ==
    [][ (~vclient.is_connected /\ reply'.op \notin {"connect", "disconnect"})
          => /\ reply'.op \in {"get_status", "get_album_art"}
                                \cup {call.op : call \in ClientCalls}
             /\ reply'.sent = <<>>
             /\ reply'.ret \in {"False", "absent"}
             /\ vclient' = vclient
             /\ vlc' = vlc
      ]_vars

\* An unmute on a client that has muted the device at 384 and was then
\* disconnected: refused, nothing sent.
C19_Witness ==
    /\ ~vclient.is_connected /\ vclient.stored = 384
    /\ reply.op = "unmute" /\ reply.ret = "False" /\ reply.sent = <<>>

\* ---------------------------------------------------------------------
\* The commands

Codes == {"SERVICE_UNAVAILABLE", "NOT_IMPLEMENTED", "SERVER_ERROR", "OK"}

\* C20: command_handler returns SERVICE_UNAVAILABLE, without a call on the
\* client, when the adapter is not connected; else NOT_IMPLEMENTED for a
\* command id it does not know, the client untouched and nothing pushed;
\* else SERVER_ERROR when the client method returns False or the call
\* raises; else, after the refresh, OK.  It returns nothing else.
C20_DispatchResult ==
    [][ /\ reply'.op = "command"
             => reply'.ret \in Codes \cup {"pending"}
        /\ reply'.ret = "pending" <=> player'.pending
        /\ player.pending
             => /\ reply'.op = "command" /\ reply'.ret = "OK"
                /\ reply'.pushed
                /\ reply.sent \o <<"status">> = reply'.sent
        /\ \A call \in Requests :
              Dispatch(call) =>
                 LET o == ClientCall(vclient, vlc.volume, call)
                 IN  /\ reply'.ret = "SERVICE_UNAVAILABLE"
                          <=> ~player.connected
                     /\ reply'.ret = "NOT_IMPLEMENTED"
                          <=> (player.connected /\ call.op = "unknown")
                     /\ reply'.ret = "SERVER_ERROR"
                          <=> /\ player.connected /\ call.op # "unknown"
                              /\ (call.bad \/ ~o.ok)
                     /\ reply'.ret = "pending"
                          <=> /\ player.connected /\ call.op # "unknown"
                              /\ ~call.bad /\ o.ok
                     /\ reply'.ret \in {"SERVICE_UNAVAILABLE",
                                        "NOT_IMPLEMENTED"}
                          => /\ reply'.sent = <<>> /\ ~reply'.pushed
                             /\ vclient' = vclient /\ vlc' = vlc
                             /\ player' = player
                     /\ reply'.ret = "SERVER_ERROR" => ~reply'.pushed
      ]_vars

\* A mute command has gone through: the status query and the volume request
\* of mute(), then the query of the refresh, and OK.
C20_Witness ==
    /\ reply.op = "command" /\ reply.ret = "OK" /\ reply.pushed
    /\ reply.sent = <<"status", "volume", "status">>
    /\ vlc.volume = 0 /\ player.muted

\* ---------------------------------------------------------------------
\* Setup of a device that is registered already

\* C21: a setup request for a device whose identifier is in the registry is
\* answered with a setup error when its probe returns: the registry is not
\* written, readiness is not reset and no initialization is called.
C21_DuplicateRefused ==
    [][ \A p \in Procs :
          ( /\ h[p].pc = "s_probe"
            /\ h[p].arg \in Range(devices)
            /\ h'[p].pc # "s_probe" )
          => /\ h'[p].kind = "idle"
             /\ event'.type = "setup"
             /\ event'.state \in {"refused", "other"}
             /\ devices' = devices /\ disk' = disk
             /\ entities_ready' = entities_ready
      ]_vars

\* ---------------------------------------------------------------------
\* The hub connects

ConnectBegins(p) == h[p].kind = "idle" /\ h'[p].kind = "connect"
ConnectReturns(p) == h[p].kind = "connect" /\ h'[p].kind = "idle"
Registry == <<clients, media_players, available>>

\* C22: on_connect with a configured registry calls _initialize_entities()
\* when the session is not ready or no entity is available, and the
\* registries are rebuilt, by this call or by the pass it has waited for;
\* when the session is ready it leaves the registries alone and reports
\* Connected.  A handler that returns has reported Connected itself, or has
\* reported Connected or Error at the end of its pass, or has found the
\* session ready after the pass it waited for reported Connected.
C22_ConnectInitializes ==
    [][ \A p \in Procs :
          /\ (ConnectBegins(p) /\ (~entities_ready \/ available = {}))
                => /\ h'[p].pc \in {"i_wait", "i_clear"}
                   /\ h'[p].pc = "i_wait" <=> lock # 0
          /\ (ConnectBegins(p) /\ entities_ready /\ available # {})
                => /\ h'[p].pc = "c_state"
                   /\ deviceState' = "CONNECTED"
                   /\ Registry' = Registry
          /\ (h[p].kind = "connect" /\ h[p].pc = "c_state")
                => /\ Registry' = Registry \/ \E q \in Procs : InPass(q)
                   /\ h'[p].pc \in {"c_state", "idle"}
          /\ ConnectReturns(p)
                => /\ h[p].pc \in {"c_state", "i_exit", "i_wait"}
                   /\ h[p].pc # "c_state"
                         => deviceState' \in {"CONNECTED", "ERROR"}
                   /\ h[p].pc = "i_exit" => h[p].devs # <<>>
                   /\ h[p].pc = "i_wait"
                         => entities_ready /\ DOMAIN media_players # {}
      ]_vars

\* A connect handler that had to wait for the lock has found the session
\* ready and returned without a pass of its own.
C22_Witness ==
    /\ \E p \in Procs : h[p].kind = "connect" /\ h[p].pc = "i_wait"
                                              /\ lock = p
    /\ entities_ready /\ deviceState = "CONNECTED"

\* ---------------------------------------------------------------------
\* A registry file that cannot be written

\* setup_handler, the probe returns, as SetupProbe; Config.save() logs a
\* failed write and goes on, so that the record is in memory and not on
\* disk (saved = FALSE).
SetupProbeSave(p, answers, saved) ==
    IF saved
    THEN SetupProbe(p, answers)
    ELSE /\ h[p].pc = "s_probe"
         /\ LET d == h[p].arg
            IN  IF ClientConnect(NewClient, answers).ok
                THEN /\ devices' = AddDevice(devices, d)
                     /\ InitEnter(p, h[p], FALSE, AddDevice(devices, d))
                ELSE /\ h' = [h EXCEPT ![p] = Idle]
                     /\ UNCHANGED <<devices, entities_ready, lock, waiters,
                                    deviceState, monitors>>
         /\ event' = IF h'[p].kind = "idle"
                     THEN SetupResult(h[p].arg,
                             IF ClientConnect(NewClient, answers).ok
                             THEN "complete" ELSE "refused")
                     ELSE NoEvent
         /\ UNCHANGED <<disk, clients, media_players, available, adapters>>
         /\ UNCHANGED <<mon, unitVars>>

\* The session with such a disk: on_connect reloads what the file holds.
IoNext ==
    \/ \E p \in Procs : PreInit(p)
    \/ \E p \in Procs : Connect(p)
    \/ \E p \in Procs : ConnectState(p)
    \/ \E p \in Procs, ids \in SUBSET Devices : Subscribe(p, ids)
    \/ \E p \in Procs, answers \in BOOLEAN : SubPush(p, answers)
    \/ \E p \in Procs, d \in Devices, valid \in BOOLEAN : Setup(p, d, valid)
    \/ \E p \in Procs, answers \in BOOLEAN, saved \in BOOLEAN :
          SetupProbeSave(p, answers, saved)
    \/ \E p \in Procs : InitResume(p)
    \/ \E p \in Procs : InitClear(p)
    \/ \E p \in Procs, answers \in BOOLEAN : InitProbe(p, answers)
    \/ \E p \in Procs : InitExit(p)

IoSpec == Init /\ [][IoNext]_vars

\* Handler p takes the lock of _initialize_entities() in this step, or is
\* woken with it, and finds the session not ready.
PassBegins(p) ==
    /\ h[p].pc \in {"start", "idle", "s_probe", "i_wait"}
    /\ h'[p].pc \in {"i_clear", "i_exit"}

\* C23: _initialize_entities() over an empty registry reports Disconnected
\* and returns: no probe is sent, entities_ready stays false, no client, no
\* adapter and no available entity is registered or removed.
C23_EmptyRegistry ==
    [][ \A p \in Procs :
          /\ (PassBegins(p) /\ devices' = <<>>)
                => /\ h'[p].pc = "i_exit" /\ h'[p].devs = <<>>
                   /\ deviceState' = "DISCONNECTED"
                   /\ ~entities_ready'
                   /\ Registry' = Registry /\ adapters' = adapters
          /\ (PassBegins(p) /\ h'[p].pc = "i_exit") => devices' = <<>>
          /\ (h[p].pc = "i_exit" /\ h[p].devs = <<>>)
                => /\ h'[p].pc \in {"i_exit", "idle", "sub_push"}
                   /\ entities_ready' = entities_ready
                   /\ Registry' = Registry
      ]_vars

\* A waiter has been woken over a registry that a reload has emptied, and
\* has reported Disconnected.
C23_Witness ==
    /\ devices = <<>>
    /\ deviceState = "DISCONNECTED"
    /\ \E p \in Procs : h[p].pc = "i_exit" /\ h[p].devs = <<>> /\ lock = p

\* ---------------------------------------------------------------------
\* One pass of the connectivity monitor

InLoop(m) == mon[m].pc \in {"status", "reconnect"}

\* C24: a pass of the monitor leaves its for loop only after the last of
\* the clients registered when it began; the status query of a client is
\* followed by connect() on that client iff it failed, and connect() is
\* followed by the next client or the end of the pass.
C24_OneQueryPerClient ==
    [][ \A m \in Watched :
          /\ (InLoop(m) /\ ~InLoop(m)') => mon[m].pos = mon[m].used
          /\ \A answers \in BOOLEAN :
                MonStatus(m, answers)
                   => (~answers <=> /\ mon'[m].pc = "reconnect"
                                    /\ mon'[m].pos = mon[m].pos)
          /\ (mon[m].pc = "reconnect" /\ InLoop(m)')
                => mon'[m].pos \in {mon[m].pos, mon[m].pos + 1}
          /\ (mon[m].pc = "reconnect" /\ mon'[m].pc = "reconnect")
                => \/ mon'[m].pos = mon[m].pos + 1
                   \/ mon'[m] = mon[m]
      ]_vars

\* C25: command_handler refreshes and pushes only after a command that
\* succeeded: the requests of the command go out first, the handler sleeps,
\* then the status is polled, the attributes are pushed and OK is returned.
\* A command that fails or raises polls nothing, pushes nothing and leaves
\* the cache as it was.
C25_RefreshAfterSuccess ==
    [][ /\ \A call \in Requests :
              Dispatch(call) =>
                 LET o == ClientCall(vclient, vlc.volume, call)
                     tried == player.connected /\ call.op # "unknown"
                                               /\ ~call.bad
                 IN  /\ ~reply'.pushed
                     /\ [player' EXCEPT !.pending = FALSE] = player
                     /\ reply'.sent = IF tried THEN o.sent ELSE <<>>
                     /\ player'.pending <=> (tried /\ o.ok)
                     /\ (tried /\ ~o.ok) => reply'.ret = "SERVER_ERROR"
        /\ player.pending
              => /\ reply'.sent = reply.sent \o <<"status">>
                 /\ reply'.pushed
                 /\ reply'.ret = "OK"
                 /\ ~player'.pending
                 /\ vlc' = vlc /\ vclient' = vclient
        /\ (reply'.op = "command" /\ reply'.pushed) => player.pending
        /\ [player' EXCEPT !.pending = FALSE] # [player EXCEPT !.pending = FALSE]
              => player.pending \/ reply'.op # "command"
      ]_vars

\* A volume command has failed on the device after an earlier command had
\* refreshed the cache: nothing pushed, the cache still that of the refresh.
C25_Witness ==
    /\ reply.op = "command" /\ reply.ret = "SERVER_ERROR"
    /\ reply.sent = <<"volume">> /\ ~reply.pushed
    /\ player.state = "PLAYING" /\ player.volume = 75

\* ---------------------------------------------------------------------
\* The periodic task of one adapter

\* The adapter with the monitoring of the hub's subscriptions: started,
\* stopped, its task taking its turns, the device there or not.
TaskNext ==
    \/ \E answers \in BOOLEAN : ClientConnectCall(answers)
    \/ ClientDisconnectCall
    \/ \E call \in VolumeCalls(Percents) : ClientOp(call)
    \/ PlayerConnect
    \/ PlayerDisconnect
    \/ StartMonitoringCall
    \/ StopMonitoringCall
    \/ \E answers \in BOOLEAN, doc \in PlainDocs : PeriodicTurn(answers, doc)

TaskSpec == UnitInit /\ [][TaskNext]_vars

\* C26: whatever the sequence of start_monitoring() and stop_monitoring()
\* calls on an adapter, at most one of its periodic tasks exists uncancelled,
\* and only while the monitoring flag is set; a start with the flag set and
\* a stop with the flag cleared change nothing; a turn of the loop that
\* finds the flag cleared pushes nothing.
C26_MonitoringIdempotent ==
    /\ [](player.ntasks <= 1 /\ (player.ntasks > 0 => player.monitoring))
    /\ [][ /\ (reply'.op = "start_monitoring" /\ player.monitoring)
                => player' = player
           /\ (reply'.op = "stop_monitoring" /\ ~player.monitoring)
                => player' = player
           /\ (reply'.op = "start_monitoring" /\ ~player.monitoring)
                => player'.monitoring /\ player'.ntasks = 1
           /\ reply'.op = "stop_monitoring"
                => ~player'.monitoring /\ player'.ntasks = 0
           /\ (reply'.op = "periodic" /\ ~player.monitoring)
                => ~reply'.pushed /\ reply'.sent = <<>>
         ]_vars

\* Monitoring was started, and started again: the second call has kept the
\* one task, which has pushed since.
C26_Witness ==
    /\ player.monitoring /\ player.ntasks = 1
    /\ reply.op = "start_monitoring" /\ reply.ret = "kept"
    /\ player.state = "PLAYING"

\* ---------------------------------------------------------------------
\* What entities_ready stands for

\* C27: while entities_ready is true the adapter registry is not empty,
\* clients, media_players and api.available_entities hold the same devices,
\* and every registered client is marked connected; the step that sets the
\* flag is the end of a pass, and the registered clients are exactly the
\* devices whose probe succeeded in that pass; the registries do not change
\* their devices while the flag stays set.
C27_ReadyMeansRegistered ==
    /\ [](entities_ready =>
            /\ media_players # <<>>
            /\ DOMAIN clients = DOMAIN media_players
            /\ DOMAIN media_players = available
            /\ \A d \in DOMAIN clients : clients[d].is_connected)
    /\ [][ /\ (~entities_ready /\ entities_ready') =>
                \E p \in Procs :
                    /\ h[p].pc = "i_probe" /\ h'[p].pc = "i_exit"
                    /\ DOMAIN clients' = h'[p].okProbes
                    /\ h'[p].okProbes \subseteq Range(h[p].devs)
           /\ (entities_ready /\ entities_ready') =>
                /\ DOMAIN clients' = DOMAIN clients
                /\ media_players' = media_players
         ]_vars

\* Two devices are configured, the pass has registered device 2 alone, and
\* the monitor has since lost it and failed to reconnect.
C27_Witness ==
    /\ entities_ready
    /\ Len(devices) = 2
    /\ DOMAIN clients = {2}
    /\ deviceState = "CONNECTING"
    /\ mon[1].pc = "sleep"

\* ---------------------------------------------------------------------
\* Unmute without a remembered volume

\* C28: an unmute that succeeds on a client that remembers no volume leaves
\* the device at full scale, the native value that set_volume(100) sends and
\* that a poll caches as volume 100.
C28_UnmuteDefaultFullScale ==
    [][ (reply'.op = "unmute" /\ reply'.ret = "True"
                              /\ vclient.stored = NoStored)
            => /\ vlc'.volume = ToNative(Percent)
               /\ ToPercent(vlc'.volume) = Percent
      ]_vars

\* ---------------------------------------------------------------------
\* Periodic tasks across a re-initialization

\* C29: every adapter whose periodic task runs with the monitoring flag set,
\* and so pushes at its next turn, is bound in media_players.
C29_NoOrphanedTask ==
    \A a \in AdapterIds :
        (adapters[a] # NoAdapter /\ adapters[a].task = "run"
                                 /\ adapters[a].monitoring)
            => \E d \in DOMAIN media_players : media_players[d] = a

\* ---------------------------------------------------------------------
\* Two refreshes of one adapter at a time

\* The callers of update_attributes(): the periodic task and
\* command_handler.
Refreshers == {"periodic", "command"}

\* The status documents the device answers the refreshes with.
RefreshDocs ==
    {doc \in Docs : doc.state \in {"playing", "paused"}
                    /\ ~doc.repeat /\ ~doc.random}

\* update_status() up to its await: the periodic task after its sleep of
\* 3 s, command_handler after its sleep of 0.5 s, sends the status request.
RefreshSend(who) ==
    /\ who \notin player.polls
    /\ player.connected
    /\ IF who = "periodic"
       THEN player.ntasks > 0 /\ player.monitoring
       ELSE player.pending
    /\ player' = [player EXCEPT !.polls = @ \cup {who}]
    /\ reply' = [NoReply EXCEPT !.op = "status_sent",
                                !.sent = UpdateSent(player, vclient)]
    /\ UNCHANGED <<vclient, vlc, sessionVars>>

\* update_status() from its await on, and the rest of update_attributes():
\* the request of one caller returns, the cache is written and pushed with
\* no suspension in between; command_handler then returns OK.
RefreshArrive(who, answers, doc) ==
    /\ who \in player.polls
    /\ LET status == StatusOf(doc, vlc.volume)
           seen == PollSeen(player, vclient, answers, status)
       IN  /\ player' = [UpdateStatus(player, vclient, answers, status)
                           EXCEPT !.polls = @ \ {who},
                                  !.pending = IF who = "command" THEN FALSE
                                              ELSE @,
                                  !.src = IF seen # NoDoc THEN seen ELSE @]
           /\ reply' = [NoReply EXCEPT
                          !.op = who,
                          !.ret = PollResult(player, vclient, answers),
                          !.seen = seen,
                          !.pushed = TRUE]
    /\ UNCHANGED <<vclient, vlc, sessionVars>>

\* The adapter with its periodic task and the hub's commands, every status
\* request answered at a time of its own.
RefreshNext ==
    \/ \E answers \in BOOLEAN : ClientConnectCall(answers)
    \/ StartMonitoringCall
    \/ StopMonitoringCall
    \/ \E call \in VolumeCalls(Percents) : Dispatch(call)
    \/ \E who \in Refreshers : RefreshSend(who)
    \/ \E who \in Refreshers, answers \in BOOLEAN, doc \in RefreshDocs :
          RefreshArrive(who, answers, doc)

RefreshSpec == UnitInit /\ [][RefreshNext]_vars

\* The cached attributes other than the state.
NonState(pl) ==
    <<pl.volume, pl.muted, pl.position, pl.duration, pl.title, pl.artist,
      pl.album, pl.image, pl.repeat, pl.shuffle>>

PassNext ==
    \/ \E p \in Procs : PreInit(p)
    \/ \E p \in Procs : Connect(p)
    \/ \E p \in Procs : ConnectState(p)
    \/ \E p \in Procs, d \in Devices, valid \in BOOLEAN : Setup(p, d, valid)
    \/ \E p \in Procs, answers \in BOOLEAN : SetupProbe(p, answers)
    \/ \E p \in Procs : InitResume(p)
    \/ \E p \in Procs : InitClear(p)
    \/ \E p \in Procs, answers \in BOOLEAN : InitProbe(p, answers)
    \/ \E p \in Procs : InitExit(p)

PassSpec == Init /\ [][PassNext]_vars

\* The steps of _initialize_entities() that follow a suspension: the lock
\* handed over, a report to the hub delivered, a probe returned.
PassStep(p) ==
    \/ InitResume(p)
    \/ InitClear(p)
    \/ \E answers \in BOOLEAN : InitProbe(p, answers)
    \/ InitExit(p)

\* The event loop runs every task that is ready: a report to the hub
\* returns, every probe returns (answered, refused, or timed out after
\* 5 s), the task the lock was handed to is woken.
PassFairSpec == PassSpec /\ \A p \in Procs : WF_vars(PassStep(p))

\* C31: every holder of initialization_lock releases it; every caller
\* suspended on the lock goes on; a pass that has reported Connecting gets
\* to its final report, and the step that ends its loop reports Connected
\* or Error.
C31_PassTerminates ==
    /\ \A p \in Procs : (lock = p) ~> (lock # p)
    /\ \A p \in Procs : (h[p].pc = "i_wait") ~> (h[p].pc # "i_wait")
    /\ \A p \in Procs :
          (h[p].pc \in {"i_clear", "i_probe"})
             ~> (h[p].pc = "i_exit"
                 /\ deviceState \in {"CONNECTED", "ERROR"})
    /\ [][\A p \in Procs :
            (h[p].pc \in {"i_clear", "i_probe"} /\ h'[p].pc = "i_exit")
               => /\ deviceState = "CONNECTING" \/ deviceState' # deviceState
                  /\ deviceState' \in {"CONNECTED", "ERROR"}
                  /\ lock' = p
         ]_vars

\* The pass of an on_connect over two devices, neither of which answered,
\* has ended with Error while a setup_handler waits for the lock.
C31_Witness ==
    \E p, q \in Procs :
        /\ h[p].kind = "connect" /\ h[p].pc = "i_exit" /\ lock = p
        /\ Len(h[p].devs) = 2 /\ clients = <<>>
        /\ deviceState = "ERROR"
        /\ h[q].kind = "setup" /\ h[q].pc = "i_wait" /\ waiters = <<q>>

====
